---- MODULE Spec2Model ----
(***************************************************************************)
(* Credential store of luuq0051/pass1: the remote backend (PasswordService *)
(* over PasswordRepository over DatabaseManager over a PostgreSQL table),  *)
(* the connection handling of DatabaseManager, the HTTP boundary, the      *)
(* client-side ServiceFactory, and the client-side retry wrapper           *)
(* handleAsyncOperation with the useLoadingState hook around it.           *)
(*                                                                         *)
(* The specifications share the variables:                                 *)
(*   Spec           the store under concurrent create/update/delete calls  *)
(*   SpecCreateRace the store under concurrent create calls only           *)
(*   SpecRecord     the records of one service, created and updated        *)
(*   SpecValidate   validatePasswordData on the bodies of create requests  *)
(*   SpecApi        the create, update and delete routes of the controller *)
(*   SpecList       a client paging through an unchanging table            *)
(*   SpecSearch     the list searched with terms that hold LIKE wildcards  *)
(*   SpecQuery      GET /api/passwords over the query strings of a request *)
(*   SpecHttp       the POST routes of the refactored and the simple server*)
(*   SpecResponse   ResponseHelper.error under every NODE_ENV              *)
(*   SpecFactory    ServiceFactory: detection and the cache of services    *)
(*   SpecSanitize   sanitizeSqlInput and the text fields of a request      *)
(*   SpecMonitor    the cache counters of ConfigPerformanceMonitor         *)
(*   SpecLoader     one useLoadingState shared by overlapping operations   *)
(*   SpecListRace   getPasswords reading beside a create or a delete       *)
(*   SpecService    getPasswords as two queries over the pool              *)
(*   SpecLimiter    rateLimiter over the requests of two clients           *)
(*   SpecErrorHandler  useErrorHandler.handleAsyncError over the wrapper   *)
(*   SpecDb         DatabaseManager: initialize, query, transaction,       *)
(*                  testConnection with injected backend failures          *)
(*   SpecRetry      handleAsyncOperation and useLoadingState               *)
(*   SpecRetryFair  SpecRetry with every pending attempt settling and      *)
(*                  every backoff timer firing                             *)
(***************************************************************************)
EXTENDS Integers, Sequences, FiniteSets, TLC

VARIABLES schema, rows, nextId, clock, call,
          pool, isConnected, dbop,
          h, hook,
          ls,
          sf,
          lq,
          resp,
          san,
          mon,
          loader,
          lr,
          svc,
          rl,
          eh

storeVars == <<schema, rows, nextId, clock, call>>
dbVars == <<pool, isConnected, dbop>>
retryVars == <<h, hook>>
vars ==
  <<schema, rows, nextId, clock, call, pool, isConnected, dbop, h, hook, ls,
    sf, lq, resp, san, mon,
    loader, lr, svc, rl, eh>>

\* null for a scalar (a code, a column value) and for an object (a row, an
\* error, a result)
NULL == "NULL"
None == [none |-> TRUE]

(***************************************************************************)
(* Bounds                                                                  *)
(***************************************************************************)
MaxCalls == 2
MaxRows == 2
MaxClock == 1
MaxWriters == 1
MaxListed == 3
MaxLimit == 2
MaxText == 2
MaxFactoryCalls == 4
MaxQueryLen == 5
MaxResponses == 2
MaxSanLen == 4
MaxRecorded == 3
MaxInFlight == 3

Calls == 1..MaxCalls

(***************************************************************************)
(* The passwords table                                                     *)
(***************************************************************************)
Services == {"Gmail", "GitHub"}
Usernames == {"alice"}
Secrets == {"p1", "p2"}

PasswordData == [service : Services, username : Usernames, password : Secrets]

\* The two DDL scripts of the repository that create the passwords table;
\* both are CREATE TABLE IF NOT EXISTS, so the one that ran first decides.
Schemas == {"neon-schema.sql", "createPasswordsTable"}

\* The id column is a UUID in both scripts; the ids 1..MaxRows stand for
\* UUIDs and MalformedId for a path segment that is not one.
MalformedId == 0
RouteIds == {MalformedId} \cup (1..MaxRows)

\* SQL equality: a comparison with NULL is never true.
SqlEq(a, b) == a # NULL /\ b # NULL /\ a = b

\* Does row r collide with another row under the table's unique constraint?
\*   neon-schema.sql:      UNIQUE(user_id, service, username)
\*   createPasswordsTable: UNIQUE(service, username)
\* service and username are NOT NULL; user_id is nullable.
UniqueViolation(sch, table, r) ==
  \E o \in table :
    /\ o.id # r.id
    /\ o.service = r.service
    /\ o.username = r.username
    /\ (sch = "neon-schema.sql" => SqlEq(o.user_id, r.user_id))

\* server AppError: isAppError, statusCode and code (null unless given).
AppError(statusCode, code) ==
  [isAppError |-> TRUE, statusCode |-> statusCode, code |-> code]

\* An error that is not an AppError: a backend-native error carrying the
\* backend's code, or (code NULL) an Error without a code such as a TypeError
\* or the pool's acquisition timeout.
NativeError(code) == [isAppError |-> FALSE, statusCode |-> 0, code |-> code]

\* DatabaseManager.transformDatabaseError: switch (error.code)
transformDatabaseError(error) ==
  CASE error.code = "23505" -> AppError(409, "DUPLICATE_ENTRY")
    [] error.code = "23503" -> AppError(400, "INVALID_REFERENCE")
    [] error.code = "23502" -> AppError(400, "MISSING_REQUIRED_FIELD")
    [] error.code = "42P01" -> AppError(500, "TABLE_NOT_FOUND")
    [] error.code = "42703" -> AppError(500, "COLUMN_NOT_FOUND")
    [] error.code = "28P01" -> AppError(500, "AUTH_FAILED")
    [] error.code = "ECONNREFUSED" -> AppError(500, "CONNECTION_REFUSED")
    [] error.code = "ETIMEDOUT" -> AppError(500, "CONNECTION_TIMEOUT")
    [] OTHER -> AppError(500, "DATABASE_ERROR")

\* PasswordRepository.findByServiceAndUsername: rows[0] || null
findByServiceAndUsername(table, service, username) ==
  LET m == {r \in table : r.service = service /\ r.username = username}
  IN IF m = {} THEN None ELSE CHOOSE r \in m : \A o \in m : r.id <= o.id

\* PasswordRepository.findById: rows[0] || null
findById(table, id) ==
  LET m == {r \in table : r.id = id}
  IN IF m = {} THEN None ELSE CHOOSE r \in m : TRUE

\* The row INSERT INTO passwords (service, username, password, created_at,
\* updated_at) VALUES ($1, $2, $3, NOW(), NOW()) builds: id from the column
\* default; user_id, url and notes (no default, not supplied) NULL.
InsertedRow(id, data, now) ==
  [id |-> id, user_id |-> NULL,
   service |-> data.service, username |-> data.username,
   password |-> data.password, url |-> None, notes |-> None,
   created_at |-> now, updated_at |-> now]

\* UPDATE that also rewrites created_at.
UpdatedRow_TouchesCreatedAt(r, data, now) ==
  [r EXCEPT !.service = data.service, !.username = data.username,
            !.password = data.password, !.updated_at = now,
            !.created_at = now]

\* The row UPDATE passwords SET service = $1, username = $2, password = $3,
\* updated_at = NOW() WHERE id = $4 turns row r into.
UpdatedRow(r, data, now) ==
  [r EXCEPT !.service = data.service, !.username = data.username,
            !.password = data.password, !.updated_at = now]

IdleCall ==
  [op |-> "none", pc |-> "idle", id |-> 0, body |-> None, named |-> {},
   data |-> None, now |-> 0, outcome |-> "none", statusCode |-> 0, code |-> NULL,
   ret |-> None]

\* The clock after a statement that read NOW() as now has completed: a
\* statement takes longer than the clock's resolution, so a statement that
\* starts after this one has completed reads a later NOW().
After(now) == IF clock > now THEN clock ELSE now + 1

Fail(c, err) ==
  [call[c] EXCEPT !.pc = "done", !.outcome = "error", !.now = 0,
                  !.statusCode = err.statusCode, !.code = err.code]

\* ResponseHelper.created after createPassword, ResponseHelper.success
\* after the other operations
SuccessStatus(op) == IF op = "create" THEN 201 ELSE 200

Succeed(c, ret) ==
  [call[c] EXCEPT !.pc = "done", !.outcome = "ok", !.now = 0, !.ret = ret,
                  !.statusCode = SuccessStatus(call[c].op)]

(***************************************************************************)
(* PasswordService.createPassword                                          *)
(***************************************************************************)
StartCreate(c, data) ==
  /\ call[c].pc = "idle"
  /\ call' = [call EXCEPT ![c] =
                [IdleCall EXCEPT !.op = "create", !.pc = "create_find",
                                 !.data = data]]
  /\ UNCHANGED <<schema, rows, nextId, clock, pool, isConnected, dbop, h, hook, ls, sf, lq, resp, san, mon, loader, lr, svc, rl, eh>>

\* await findByServiceAndUsername; if (existing) throw AppError(409)
CreateFind(c) ==
  /\ call[c].pc = "create_find"
  /\ LET existing == findByServiceAndUsername(rows, call[c].data.service,
                                              call[c].data.username)
     IN call' = [call EXCEPT ![c] =
                   IF existing # None
                   THEN Fail(c, AppError(409, NULL))
                   ELSE [call[c] EXCEPT !.pc = "create_begin"]]
  /\ UNCHANGED <<schema, rows, nextId, clock, pool, isConnected, dbop, h, hook, ls, sf, lq, resp, san, mon, loader, lr, svc, rl, eh>>

\* await passwordRepository.create(encryptedData) sends the INSERT, which
\* runs as a transaction of its own: NOW() is the time that transaction
\* started.
CreateBegin(c) ==
  /\ call[c].pc = "create_begin"
  /\ clock <= MaxClock
  /\ call' = [call EXCEPT ![c] = [@ EXCEPT !.pc = "create_insert", !.now = clock]]
  /\ UNCHANGED <<schema, rows, nextId, clock, pool, isConnected, dbop, h, hook, ls, sf, lq, resp, san, mon, loader, lr, svc, rl, eh>>

\* The INSERT completes; its unique violation (23505) is turned into
\* AppError 409 by DatabaseManager.query.
CreateInsert(c) ==
  /\ call[c].pc = "create_insert"
  /\ nextId <= MaxRows
  /\ LET r == InsertedRow(nextId, call[c].data, call[c].now)
     IN IF UniqueViolation(schema, rows, r)
        THEN /\ call' = [call EXCEPT ![c] =
                           Fail(c, transformDatabaseError(NativeError("23505")))]
             /\ UNCHANGED <<rows, nextId>>
        ELSE /\ rows' = rows \cup {r}
             /\ nextId' = nextId + 1
             /\ call' = [call EXCEPT ![c] = Succeed(c, r)]
  /\ clock' = After(call[c].now)
  /\ UNCHANGED <<schema, pool, isConnected, dbop, h, hook, ls, sf, lq, resp, san, mon, loader, lr, svc, rl, eh>>

(***************************************************************************)
(* PasswordService.updatePassword                                          *)
(***************************************************************************)
StartUpdate(c, id, data) ==
  /\ call[c].pc = "idle"
  /\ call' = [call EXCEPT ![c] =
                [IdleCall EXCEPT !.op = "update", !.pc = "update_find",
                                 !.id = id, !.data = data]]
  /\ UNCHANGED <<schema, rows, nextId, clock, pool, isConnected, dbop, h, hook, ls, sf, lq, resp, san, mon, loader, lr, svc, rl, eh>>

\* await findById(id); if (!existingPassword) throw AppError(404).
\* An id that is no UUID makes the SELECT fail (22P02); the AppError that
\* DatabaseManager.query throws for it is rethrown as it is.
UpdateFind(c) ==
  /\ call[c].pc = "update_find"
  /\ LET existing == findById(rows, call[c].id)
     IN call' = [call EXCEPT ![c] =
                   IF call[c].id = MalformedId
                   THEN Fail(c, transformDatabaseError(NativeError("22P02")))
                   ELSE IF existing = None
                   THEN Fail(c, AppError(404, NULL))
                   ELSE [call[c] EXCEPT !.pc = "update_begin"]]
  /\ UNCHANGED <<schema, rows, nextId, clock, pool, isConnected, dbop, h, hook, ls, sf, lq, resp, san, mon, loader, lr, svc, rl, eh>>

\* await passwordRepository.update(id, data) sends the UPDATE, which runs
\* as a transaction of its own: NOW() is the time that transaction started,
\* read before the statement gets to the row.
UpdateBegin(c) ==
  /\ call[c].pc = "update_begin"
  /\ clock <= MaxClock
  /\ call' = [call EXCEPT ![c] = [@ EXCEPT !.pc = "update_exec", !.now = clock]]
  /\ UNCHANGED <<schema, rows, nextId, clock, pool, isConnected, dbop, h, hook, ls, sf, lq, resp, san, mon, loader, lr, svc, rl, eh>>

\* UPDATE ... RETURNING * reaches the row and completes.
\* No row matched: result.rows[0] is undefined and reading
\* updatedPassword.service throws a TypeError, rethrown as AppError 500.
UpdateExec(c) ==
  /\ call[c].pc = "update_exec"
  /\ clock' = After(call[c].now)
  /\ LET old == findById(rows, call[c].id)
     IN IF old = None
        THEN /\ call' = [call EXCEPT ![c] = Fail(c, AppError(500, NULL))]
             /\ UNCHANGED rows
        ELSE LET r == UpdatedRow(old, call[c].data, call[c].now)
             IN IF UniqueViolation(schema, rows, r)
                THEN /\ call' = [call EXCEPT ![c] =
                                   Fail(c, transformDatabaseError(NativeError("23505")))]
                     /\ UNCHANGED rows
                ELSE /\ rows' = (rows \ {old}) \cup {r}
                     /\ call' = [call EXCEPT ![c] = Succeed(c, r)]
  /\ UNCHANGED <<schema, nextId, pool, isConnected, dbop, h, hook, ls, sf, lq, resp, san, mon, loader, lr, svc, rl, eh>>

(***************************************************************************)
(* PasswordService.deletePassword                                          *)
(***************************************************************************)
StartDelete(c, id) ==
  /\ call[c].pc = "idle"
  /\ call' = [call EXCEPT ![c] =
                [IdleCall EXCEPT !.op = "delete", !.pc = "delete_find",
                                 !.id = id]]
  /\ UNCHANGED <<schema, rows, nextId, clock, pool, isConnected, dbop, h, hook, ls, sf, lq, resp, san, mon, loader, lr, svc, rl, eh>>

\* await findById(id); if (!existingPassword) throw AppError(404).
\* An id that is no UUID makes the SELECT fail (22P02), as in UpdateFind.
DeleteFind(c) ==
  /\ call[c].pc = "delete_find"
  /\ LET existing == findById(rows, call[c].id)
     IN call' = [call EXCEPT ![c] =
                   IF call[c].id = MalformedId
                   THEN Fail(c, transformDatabaseError(NativeError("22P02")))
                   ELSE IF existing = None
                   THEN Fail(c, AppError(404, NULL))
                   ELSE [call[c] EXCEPT !.pc = "delete_exec"]]
  /\ UNCHANGED <<schema, rows, nextId, clock, pool, isConnected, dbop, h, hook, ls, sf, lq, resp, san, mon, loader, lr, svc, rl, eh>>

\* await passwordRepository.delete(id): DELETE FROM passwords WHERE id = $1;
\* the number of deleted rows is not looked at.
DeleteExec(c) ==
  /\ call[c].pc = "delete_exec"
  /\ rows' = {r \in rows : r.id # call[c].id}
  /\ call' = [call EXCEPT ![c] = Succeed(c, None)]
  /\ UNCHANGED <<schema, nextId, clock, pool, isConnected, dbop, h, hook, ls, sf, lq, resp, san, mon, loader, lr, svc, rl, eh>>

\* The caller has received the outcome; the slot serves the next request.
Return(c) ==
  /\ call[c].pc = "done"
  /\ call' = [call EXCEPT ![c] = IdleCall]
  /\ UNCHANGED <<schema, rows, nextId, clock, pool, isConnected, dbop, h, hook, ls, sf, lq, resp, san, mon, loader, lr, svc, rl, eh>>

\* NOW() advances.
Tick ==
  /\ clock <= MaxClock
  /\ clock' = clock + 1
  /\ UNCHANGED <<schema, rows, nextId, call, pool, isConnected, dbop, h, hook, ls, sf, lq, resp, san, mon, loader, lr, svc, rl, eh>>

(***************************************************************************)
(* ValidationService and PasswordController                                *)
(***************************************************************************)
\* A string of a request body: its text without the surrounding whitespace,
\* the length of that text, and the number of whitespace characters in
\* front of it.  Undefined is a key the body does not have.
Undefined == [undefined |-> TRUE]
Str(text, len, lead) == [text |-> text, len |-> len, lead |-> lead]

\* String.prototype.length and String.prototype.trim
StrLen(s) == s.lead + s.len
Trim(s) == [s EXCEPT !.lead = 0]

ServiceMax == 100
UsernameMax == 100
PasswordMax == 500

ServiceInputs ==
  {Undefined, Str("", 0, 0), Str("", 0, 1), Str("Gmail", 5, 0),
   Str("Gmail", 5, 1), Str("s", ServiceMax, 0), Str("s", ServiceMax + 1, 0)}
UsernameInputs ==
  {Str("alice", 5, 0), Str("", 0, 0), Str("u", UsernameMax + 1, 0)}
PasswordInputs ==
  {Undefined, Str("p1", 2, 0), Str("p", PasswordMax, 0),
   Str("p", PasswordMax + 1, 0)}
UrlInputs == {Undefined, Str("https://x", 9, 0)}

\* req.body; url stands for the optional fields url and notes, which the
\* code treats alike.
Bodies ==
  [service : ServiceInputs, username : UsernameInputs,
   password : PasswordInputs, url : UrlInputs]

\* The issues one z.string().min(1).max(max) collects for a value: every
\* check runs, on the value as given.
StringIssues(v, max) ==
  IF v = Undefined THEN {"Required"}
  ELSE (IF StrLen(v) < 1 THEN {"too_small"} ELSE {})
       \cup (IF StrLen(v) > max THEN {"too_big"} ELSE {})

\* validatePasswordData reporting the first issue only.
validatePasswordData_FirstIssue(body) ==
  LET issues == [service |-> StringIssues(body.service, ServiceMax),
                 username |-> StringIssues(body.username, UsernameMax),
                 password |-> StringIssues(body.password, PasswordMax)]
      named == {f \in DOMAIN issues : issues[f] # {}}
      first == IF "service" \in named THEN {"service"}
               ELSE IF "username" \in named THEN {"username"}
               ELSE named
  IN IF named # {}
     THEN [ok |-> FALSE, named |-> first, data |-> None]
     ELSE [ok |-> TRUE, named |-> {},
           data |-> [service |-> Trim(body.service),
                     username |-> Trim(body.username),
                     password |-> body.password]]

\* ValidationService.validatePasswordData: passwordSchema.parse(data).
\* All issues of all keys are collected and the message lists the path of
\* each; on success the object holds the three keys of the schema, service
\* and username trimmed after their length checks, unknown keys stripped.
validatePasswordData(body) ==
  LET issues == [service |-> StringIssues(body.service, ServiceMax),
                 username |-> StringIssues(body.username, UsernameMax),
                 password |-> StringIssues(body.password, PasswordMax)]
      named == {f \in DOMAIN issues : issues[f] # {}}
  IN IF named # {}
     THEN [ok |-> FALSE, named |-> named, data |-> None]
     ELSE [ok |-> TRUE, named |-> {},
           data |-> [service |-> Trim(body.service),
                     username |-> Trim(body.username),
                     password |-> body.password]]

\* The request ends in ResponseHelper.error with the 400 of the validation.
Rejected(op, id, body, v) ==
  [IdleCall EXCEPT !.op = op, !.pc = "done", !.id = id, !.body = body,
                   !.outcome = "error", !.statusCode = 400,
                   !.named = v.named]

\* PasswordController.createPassword up to its await
ControllerCreate(c, body) ==
  /\ call[c].pc = "idle"
  /\ LET v == validatePasswordData(body)
     IN call' = [call EXCEPT ![c] =
                   IF ~v.ok THEN Rejected("create", 0, body, v)
                   ELSE [IdleCall EXCEPT !.op = "create", !.pc = "create_find",
                                         !.body = body, !.data = v.data]]
  /\ UNCHANGED <<schema, rows, nextId, clock, pool, isConnected, dbop, h, hook, ls, sf, lq, resp, san, mon, loader, lr, svc, rl, eh>>

\* PasswordController.updatePassword up to its await: req.params.id goes to
\* the service as it came.
ControllerUpdate(c, id, body) ==
  /\ call[c].pc = "idle"
  /\ LET v == validatePasswordData(body)
     IN call' = [call EXCEPT ![c] =
                   IF ~v.ok THEN Rejected("update", id, body, v)
                   ELSE [IdleCall EXCEPT !.op = "update", !.pc = "update_find",
                                         !.id = id, !.body = body,
                                         !.data = v.data]]
  /\ UNCHANGED <<schema, rows, nextId, clock, pool, isConnected, dbop, h, hook, ls, sf, lq, resp, san, mon, loader, lr, svc, rl, eh>>

\* PasswordController.deletePassword up to its await: req.params.id goes to
\* the service as it came.
ControllerDelete(c, id) == StartDelete(c, id)

(***************************************************************************)
(* PasswordService.getPasswords: one client paging through the list        *)
(***************************************************************************)
\* Math.ceil(n / d)
Ceil(n, d) == (n + d - 1) \div d

\* The row sequences ORDER BY updated_at DESC may produce for a table: rows
\* with equal updated_at come in whatever order the executor yields them,
\* which can differ from one statement to the next.
OrderByUpdatedAtDesc(table) ==
  {o \in [1..Cardinality(table) -> table] :
     /\ \A i, j \in DOMAIN o : i # j => o[i] # o[j]
     /\ \A i, j \in DOMAIN o : i < j => o[i].updated_at >= o[j].updated_at}

\* LIMIT limit OFFSET offset of an ordered result
LimitOffset(o, limit, offset) ==
  SubSeq(o, offset + 1, IF offset + limit < Len(o) THEN offset + limit ELSE Len(o))

\* A search term, and a text it is matched against, is a sequence of
\* characters; the empty sequence is the term of a request without one.
NoSearch == <<>>
Lower(ch) == IF ch = "A" THEN "a" ELSE IF ch = "B" THEN "b" ELSE ch

\* text ILIKE pattern: % matches any run of characters, _ any single
\* character, every other character itself without regard to case.
RECURSIVE ILike(_, _)
ILike(text, pattern) ==
  IF pattern = <<>> THEN text = <<>>
  ELSE IF Head(pattern) = "%"
  THEN \/ ILike(text, Tail(pattern))
       \/ text # <<>> /\ ILike(Tail(text), pattern)
  ELSE IF Head(pattern) = "_"
  THEN text # <<>> /\ ILike(Tail(text), Tail(pattern))
  ELSE /\ text # <<>>
       /\ Lower(Head(text)) = Lower(Head(pattern))
       /\ ILike(Tail(text), Tail(pattern))

\* WHERE service ILIKE $1 OR username ILIKE $1 with $1 = `%${search}%`,
\* added if (search)
SearchWhere(table, search) ==
  IF search = NoSearch THEN table
  ELSE LET pattern == <<"%">> \o search \o <<"%">>
       IN {r \in table : ILike(r.service, pattern) \/ ILike(r.username, pattern)}

\* PasswordRepository.findWithSearch: the results the SELECT may return.
findWithSearch(table, search, limit, offset) ==
  {LimitOffset(o, limit, offset) :
     o \in OrderByUpdatedAtDesc(SearchWhere(table, search))}

\* PasswordRepository.countWithSearch
countWithSearch(table, search) == Cardinality(SearchWhere(table, search))

IdleList == [pc |-> "idle", limit |-> 0, search |-> NoSearch, pages |-> <<>>]

\* The client starts with page 1 at page size limit.
ListStart(limit, search) ==
  /\ ls.pc = "idle"
  /\ ls' = [pc |-> "paging", limit |-> limit, search |-> search,
            pages |-> <<>>]
  /\ UNCHANGED <<schema, rows, nextId, clock, call, pool, isConnected, dbop, h, hook, sf, lq, resp, san, mon, loader, lr, svc, rl, eh>>

\* getPasswords({page, limit}) for the next page, while the pagination of
\* the last answer says there is one.
getPasswords ==
  /\ ls.pc = "paging"
  /\ IF Len(ls.pages) = 0 THEN TRUE
     ELSE ls.pages[Len(ls.pages)].pagination.hasNext
  /\ LET page == Len(ls.pages) + 1
         limit == ls.limit
         offset == (page - 1) * limit
         total == countWithSearch(rows, ls.search)
     IN \E passwords \in findWithSearch(rows, ls.search, limit, offset) :
          ls' = [ls EXCEPT !.pages = Append(@,
                   [data |-> passwords,
                    pagination |-> [page |-> page, limit |-> limit,
                                    total |-> total,
                                    totalPages |-> Ceil(total, limit),
                                    hasNext |-> page * limit < total,
                                    hasPrev |-> page > 1]])]
  /\ UNCHANGED <<schema, rows, nextId, clock, call, pool, isConnected, dbop, h, hook, sf, lq, resp, san, mon, loader, lr, svc, rl, eh>>

\* The client is done with the list.
ListReturn ==
  /\ ls.pc = "paging"
  /\ ls' = IdleList
  /\ UNCHANGED <<schema, rows, nextId, clock, call, pool, isConnected, dbop, h, hook, sf, lq, resp, san, mon, loader, lr, svc, rl, eh>>

ListInit == ls = IdleList

\* The tables of up to MaxListed records the list is paged over: record
\* id as its INSERT at one NOW() and an UPDATE at the same or a later one
\* left it, no two records with the same service.
ListedServices == <<"Gmail", "GitHub", "Neon", "Slack", "Zoom">>
ListedData(id) ==
  [service |-> ListedServices[id], username |-> "alice", password |-> "p1"]
ListedRows ==
  {UpdatedRow(InsertedRow(id, ListedData(id), t[1]), ListedData(id), t[2]) :
     id \in 1..MaxListed,
     t \in {x \in (0..MaxClock) \X (0..MaxClock) : x[1] <= x[2]}}
\* The texts of up to MaxText characters, among them the two wildcards of
\* LIKE, and the tables of two records whose services are such texts.
Chars == {"a", "A", "%", "_"}
Texts == UNION {[1..n -> Chars] : n \in 1..MaxText}
SearchTerms == {NoSearch} \cup Texts
SearchedRow(id, service) ==
  InsertedRow(id, [service |-> service, username |-> <<"b", "B">>,
                   password |-> "p1"], id - 1)
SearchedTables ==
  {{SearchedRow(1, p[1]), SearchedRow(2, p[2])} :
     p \in {q \in Texts \X Texts : q[1] # q[2]}}

ListedTables ==
  {t \in SUBSET ListedRows : \A r1, r2 \in t : r1.id = r2.id => r1 = r2}

StoreInit ==
  /\ schema \in Schemas
  /\ rows = {}
  /\ nextId = 1
  /\ clock = 0
  /\ call = [c \in Calls |-> IdleCall]

CreateStep(c) ==
  \/ \E data \in PasswordData : StartCreate(c, data)
  \/ CreateFind(c)
  \/ CreateBegin(c)
  \/ CreateInsert(c)

UpdateStep(c) ==
  \/ \E id \in 1..MaxRows, data \in PasswordData : StartUpdate(c, id, data)
  \/ UpdateFind(c)
  \/ UpdateBegin(c)
  \/ UpdateExec(c)

DeleteStep(c) ==
  \/ \E id \in 1..MaxRows : StartDelete(c, id)
  \/ DeleteFind(c)
  \/ DeleteExec(c)

(***************************************************************************)
(* DatabaseManager: the pool and the operations that check connections out *)
(***************************************************************************)
MaxOps == 2
PoolMax == 2

Ops == 1..MaxOps

\* Codes of the backend and of the network layer under it.
NativeCodes ==
  {"23505", "23503", "23502", "42P01", "42703", "28P01",
   "ECONNREFUSED", "ETIMEDOUT"}

\* The codes transformDatabaseError hands out.
TaxonomyCodes ==
  {"DUPLICATE_ENTRY", "INVALID_REFERENCE", "MISSING_REQUIRED_FIELD",
   "TABLE_NOT_FOUND", "COLUMN_NOT_FOUND", "AUTH_FAILED",
   "CONNECTION_REFUSED", "CONNECTION_TIMEOUT", "DATABASE_ERROR"}

\* Failures injected into pool.connect() and into client.query().
ConnectFailures == {"ECONNREFUSED", NULL}
StatementFailures == {"23505", "ETIMEDOUT", NULL}

\* connectionTimeoutMillis: the error pool.connect() rejects with when no
\* connection is served within the wait; it carries a message and no code.
AcquireTimeout == NativeError(NULL)

IdleOp ==
  [kind |-> "none", pc |-> "idle", client |-> FALSE,
   acquired |-> 0, released |-> 0, log |-> <<>>,
   err |-> None, outcome |-> "none", thrown |-> None]

Ev(ev, ok) == [ev |-> ev, ok |-> ok]

\* ResponseHelper.handleDatabaseError: status for a backend-native code
handleDatabaseError(error) ==
  CASE error.code = "23505" -> 409
    [] error.code = "23503" -> 400
    [] error.code = "23502" -> 400
    [] error.code = "42P01" -> 500
    [] OTHER -> 500

\* ResponseHelper.error: status and error.code of the JSON body
ResponseError(error) ==
  IF error.isAppError
  THEN [status |-> error.statusCode, code |-> error.code]
  ELSE IF error.code # NULL
       THEN [status |-> handleDatabaseError(error), code |-> error.code]
       ELSE [status |-> 500, code |-> NULL]

\* pool.connect() resolves: a connection is checked out.
Acquire(o, nextPc) ==
  /\ pool.created
  /\ pool.checkedOut < PoolMax
  /\ pool' = [pool EXCEPT !.checkedOut = @ + 1]
  /\ dbop' = [dbop EXCEPT ![o] =
                [@ EXCEPT !.pc = nextPc, !.client = TRUE,
                          !.acquired = @ + 1,
                          !.log = Append(@, Ev("ACQUIRE", TRUE))]]

\* The operation ends without touching the pool.
Finish(o, outcome, thrown, events) ==
  dbop' = [dbop EXCEPT ![o] =
             [@ EXCEPT !.pc = "done", !.outcome = outcome, !.err = None,
                       !.thrown = thrown, !.log = @ \o events]]

\* The operation ends and client.release() runs on the way out.
FinishReleasing(o, outcome, thrown, events) ==
  /\ pool' = [pool EXCEPT !.checkedOut = @ - 1]
  /\ dbop' = [dbop EXCEPT ![o] =
                [@ EXCEPT !.pc = "done", !.outcome = outcome, !.err = None,
                          !.thrown = thrown, !.client = FALSE,
                          !.released = @ + 1, !.log = @ \o events]]

(***************************************************************************)
(* DatabaseManager.query                                                   *)
(***************************************************************************)
\* if (!this.pool) throw AppError(500): caught, transformed, nothing to
\* release; otherwise the call waits in pool.connect().
StartQuery(o) ==
  /\ dbop[o].pc = "idle"
  /\ IF pool.created
     THEN dbop' = [dbop EXCEPT ![o] =
                     [IdleOp EXCEPT !.kind = "query", !.pc = "q_connect"]]
     ELSE dbop' = [dbop EXCEPT ![o] =
                     [IdleOp EXCEPT !.kind = "query", !.pc = "done",
                        !.outcome = "error",
                        !.thrown = transformDatabaseError(AppError(500, NULL)),
                        !.log = <<Ev("CLASSIFY", TRUE), Ev("THROW", TRUE)>>]]
  /\ UNCHANGED <<pool, isConnected, schema, rows, nextId, clock, call, h, hook, ls, sf, lq, resp, san, mon, loader, lr, svc, rl, eh>>

QueryConnect(o) ==
  /\ dbop[o].pc = "q_connect"
  /\ \/ Acquire(o, "q_exec")
     \/ /\ \E code \in ConnectFailures :
             Finish(o, "error", transformDatabaseError(NativeError(code)),
                    <<Ev("ACQUIRE", FALSE), Ev("CLASSIFY", TRUE),
                      Ev("THROW", TRUE)>>)
        /\ UNCHANGED pool
     \/ /\ pool.created
        /\ pool.checkedOut >= PoolMax
        /\ Finish(o, "error", transformDatabaseError(AcquireTimeout),
                  <<Ev("TIMEOUT", FALSE), Ev("CLASSIFY", TRUE),
                    Ev("THROW", TRUE)>>)
        /\ UNCHANGED pool
  /\ UNCHANGED <<isConnected, schema, rows, nextId, clock, call, h, hook, ls, sf, lq, resp, san, mon, loader, lr, svc, rl, eh>>

\* await client.query(text, params); catch: throw transformDatabaseError;
\* finally: if (client) client.release()
QueryExec(o) ==
  /\ dbop[o].pc = "q_exec"
  /\ \/ FinishReleasing(o, "ok", None,
                        <<Ev("STATEMENT", TRUE), Ev("RELEASE", TRUE)>>)
     \/ \E code \in StatementFailures :
          FinishReleasing(o, "error",
                          transformDatabaseError(NativeError(code)),
                          <<Ev("STATEMENT", FALSE), Ev("CLASSIFY", TRUE),
                            Ev("RELEASE", TRUE), Ev("THROW", TRUE)>>)
  /\ UNCHANGED <<isConnected, schema, rows, nextId, clock, call, h, hook, ls, sf, lq, resp, san, mon, loader, lr, svc, rl, eh>>

(***************************************************************************)
(* DatabaseManager.transaction                                             *)
(***************************************************************************)
\* const client = await this.pool.connect() stands before the try block:
\* with no pool, reading this.pool.connect throws a TypeError to the caller.
StartTransaction(o) ==
  /\ dbop[o].pc = "idle"
  /\ IF pool.created
     THEN dbop' = [dbop EXCEPT ![o] =
                     [IdleOp EXCEPT !.kind = "transaction",
                                    !.pc = "t_connect"]]
     ELSE dbop' = [dbop EXCEPT ![o] =
                     [IdleOp EXCEPT !.kind = "transaction", !.pc = "done",
                        !.outcome = "error", !.thrown = NativeError(NULL),
                        !.log = <<Ev("THROW", TRUE)>>]]
  /\ UNCHANGED <<pool, isConnected, schema, rows, nextId, clock, call, h, hook, ls, sf, lq, resp, san, mon, loader, lr, svc, rl, eh>>

\* A failed acquisition is outside the try block and leaves as it is.
TxConnect(o) ==
  /\ dbop[o].pc = "t_connect"
  /\ \/ Acquire(o, "t_begin")
     \/ /\ \E code \in ConnectFailures :
             Finish(o, "error", NativeError(code),
                    <<Ev("ACQUIRE", FALSE), Ev("THROW", TRUE)>>)
        /\ UNCHANGED pool
     \/ /\ pool.checkedOut >= PoolMax
        /\ Finish(o, "error", AcquireTimeout,
                  <<Ev("TIMEOUT", FALSE), Ev("THROW", TRUE)>>)
        /\ UNCHANGED pool
  /\ UNCHANGED <<isConnected, schema, rows, nextId, clock, call, h, hook, ls, sf, lq, resp, san, mon, loader, lr, svc, rl, eh>>

\* One awaited step of the try block: it resolves and the transaction moves
\* on, or it rejects and control enters the catch block with that error.
TxStep(o, ev, nextPc) ==
  \/ dbop' = [dbop EXCEPT ![o] =
                [@ EXCEPT !.pc = nextPc, !.log = Append(@, Ev(ev, TRUE))]]
  \/ \E code \in StatementFailures :
       dbop' = [dbop EXCEPT ![o] =
                  [@ EXCEPT !.pc = "t_rollback", !.err = NativeError(code),
                            !.log = Append(@, Ev(ev, FALSE))]]

\* await client.query('BEGIN')
TxBegin(o) ==
  /\ dbop[o].pc = "t_begin"
  /\ TxStep(o, "BEGIN", "t_callback")
  /\ UNCHANGED <<pool, isConnected, schema, rows, nextId, clock, call, h, hook, ls, sf, lq, resp, san, mon, loader, lr, svc, rl, eh>>

\* const result = await callback(client)
TxCallback(o) ==
  /\ dbop[o].pc = "t_callback"
  /\ TxStep(o, "CALLBACK", "t_commit")
  /\ UNCHANGED <<pool, isConnected, schema, rows, nextId, clock, call, h, hook, ls, sf, lq, resp, san, mon, loader, lr, svc, rl, eh>>

\* A transaction whose failed COMMIT skips the ROLLBACK.
TxCommit_NoRollback(o) ==
  /\ dbop[o].pc = "t_commit"
  /\ \/ FinishReleasing(o, "ok", None,
                        <<Ev("COMMIT", TRUE), Ev("RELEASE", TRUE)>>)
     \/ \E code \in StatementFailures :
          FinishReleasing(o, "error",
                          transformDatabaseError(NativeError(code)),
                          <<Ev("COMMIT", FALSE), Ev("CLASSIFY", TRUE),
                            Ev("RELEASE", TRUE), Ev("THROW", TRUE)>>)
  /\ UNCHANGED <<isConnected, schema, rows, nextId, clock, call, h, hook, ls, sf, lq, resp, san, mon, loader, lr, svc, rl, eh>>

\* await client.query('COMMIT'); return result; finally client.release()
TxCommit(o) ==
  /\ dbop[o].pc = "t_commit"
  /\ \/ FinishReleasing(o, "ok", None,
                        <<Ev("COMMIT", TRUE), Ev("RELEASE", TRUE)>>)
     \/ /\ \E code \in StatementFailures :
             dbop' = [dbop EXCEPT ![o] =
                        [@ EXCEPT !.pc = "t_rollback",
                                  !.err = NativeError(code),
                                  !.log = Append(@, Ev("COMMIT", FALSE))]]
        /\ UNCHANGED pool
  /\ UNCHANGED <<isConnected, schema, rows, nextId, clock, call, h, hook, ls, sf, lq, resp, san, mon, loader, lr, svc, rl, eh>>

\* catch: await client.query('ROLLBACK'); throw transformDatabaseError(error);
\* finally client.release().  A rejected ROLLBACK leaves the catch block with
\* its own error, untransformed; finally still runs.
TxRollback(o) ==
  /\ dbop[o].pc = "t_rollback"
  /\ \/ FinishReleasing(o, "error", transformDatabaseError(dbop[o].err),
                        <<Ev("ROLLBACK", TRUE), Ev("CLASSIFY", TRUE),
                          Ev("RELEASE", TRUE), Ev("THROW", TRUE)>>)
     \/ \E code \in StatementFailures :
          FinishReleasing(o, "error", NativeError(code),
                          <<Ev("ROLLBACK", FALSE), Ev("RELEASE", TRUE),
                            Ev("THROW", TRUE)>>)
  /\ UNCHANGED <<isConnected, schema, rows, nextId, clock, call, h, hook, ls, sf, lq, resp, san, mon, loader, lr, svc, rl, eh>>

(***************************************************************************)
(* DatabaseManager.testConnection, called by healthCheck and by initialize *)
(***************************************************************************)
\* Every failure inside testConnection is rethrown as AppError(500);
\* initialize wraps that once more as AppError(500).
TestFailure == AppError(500, NULL)

\* healthCheck() -> testConnection(): with no pool, this.pool.connect throws
\* inside the try block.
StartTestConnection(o) ==
  /\ dbop[o].pc = "idle"
  /\ IF pool.created
     THEN dbop' = [dbop EXCEPT ![o] =
                     [IdleOp EXCEPT !.kind = "testConnection",
                                    !.pc = "tc_connect"]]
     ELSE dbop' = [dbop EXCEPT ![o] =
                     [IdleOp EXCEPT !.kind = "testConnection", !.pc = "done",
                        !.outcome = "error", !.thrown = TestFailure,
                        !.log = <<Ev("THROW", TRUE)>>]]
  /\ UNCHANGED <<pool, isConnected, schema, rows, nextId, clock, call, h, hook, ls, sf, lq, resp, san, mon, loader, lr, svc, rl, eh>>

\* initialize(): if (this.pool) return; otherwise create the pool and test it.
StartInitialize(o) ==
  /\ dbop[o].pc = "idle"
  /\ IF pool.created
     THEN /\ dbop' = [dbop EXCEPT ![o] =
                        [IdleOp EXCEPT !.kind = "initialize", !.pc = "done",
                                       !.outcome = "ok"]]
          /\ UNCHANGED pool
     ELSE /\ pool' = [pool EXCEPT !.created = TRUE]
          /\ dbop' = [dbop EXCEPT ![o] =
                        [IdleOp EXCEPT !.kind = "initialize",
                                       !.pc = "tc_connect"]]
  /\ UNCHANGED <<isConnected, schema, rows, nextId, clock, call, h, hook, ls, sf, lq, resp, san, mon, loader, lr, svc, rl, eh>>

\* const client = await this.pool.connect()
TestConnect(o) ==
  /\ dbop[o].pc = "tc_connect"
  /\ \/ Acquire(o, "tc_query")
     \/ /\ Finish(o, "error", TestFailure,
                  <<Ev("ACQUIRE", FALSE), Ev("THROW", TRUE)>>)
        /\ UNCHANGED pool
  /\ UNCHANGED <<isConnected, schema, rows, nextId, clock, call, h, hook, ls, sf, lq, resp, san, mon, loader, lr, svc, rl, eh>>

\* const result = await client.query('SELECT NOW() ...'); client.release();
\* a rejected query jumps to the catch block, past client.release().
\* initialize then sets isConnected = true.
TestQuery(o) ==
  /\ dbop[o].pc = "tc_query"
  /\ \/ /\ FinishReleasing(o, "ok", None,
                           <<Ev("STATEMENT", TRUE), Ev("RELEASE", TRUE)>>)
        /\ isConnected' = (isConnected \/ dbop[o].kind = "initialize")
     \/ /\ Finish(o, "error", TestFailure,
                  <<Ev("STATEMENT", FALSE), Ev("THROW", TRUE)>>)
        /\ UNCHANGED <<pool, isConnected>>
  /\ UNCHANGED <<schema, rows, nextId, clock, call, h, hook, ls, sf, lq, resp, san, mon, loader, lr, svc, rl, eh>>

\* The caller has the outcome; the slot serves the next operation.
DbReturn(o) ==
  /\ dbop[o].pc = "done"
  /\ dbop' = [dbop EXCEPT ![o] = IdleOp]
  /\ UNCHANGED <<pool, isConnected, schema, rows, nextId, clock, call, h, hook, ls, sf, lq, resp, san, mon, loader, lr, svc, rl, eh>>

DbInit ==
  /\ pool = [created |-> FALSE, checkedOut |-> 0]
  /\ isConnected = FALSE
  /\ dbop = [o \in Ops |-> IdleOp]

(***************************************************************************)
(* handleAsyncOperation (error-patterns) and useLoadingState               *)
(***************************************************************************)
MaxRetry == 2

RetryCounts == (0 - 1)..MaxRetry
RetryDelays == {100, 1000}

\* enum ErrorType
ErrorTypes ==
  {"VALIDATION", "DATABASE", "NETWORK", "AUTHENTICATION", "PERMISSION",
   "CLIPBOARD", "UNKNOWN"}

\* AppError.getDefaultRecoveryStrategy
getDefaultRecoveryStrategy(type) ==
  CASE type = "VALIDATION" -> "FALLBACK"
    [] type = "DATABASE" -> "RETRY"
    [] type = "NETWORK" -> "RETRY"
    [] type = "AUTHENTICATION" -> "REDIRECT"
    [] type = "PERMISSION" -> "FALLBACK"
    [] type = "CLIPBOARD" -> "RETRY"
    [] type = "UNKNOWN" -> "RETRY"

\* AppError.getDefaultUserMessage: one fixed message per type
getDefaultUserMessage(type) == <<"userMessage", type>>

\* The taxonomy kind an ErrorType stands for.
KindOfType(type) ==
  CASE type = "VALIDATION" -> "Validation"
    [] type = "DATABASE" -> "Database"
    [] type = "NETWORK" -> "Network"
    [] type = "AUTHENTICATION" -> "Authentication"
    [] type = "PERMISSION" -> "Permission"
    [] type = "CLIPBOARD" -> "Clipboard"
    [] type = "UNKNOWN" -> "Unknown"

\* new AppError(message, type): the client-side classified error
ClientAppError(type, kind) ==
  [ok |-> FALSE, value |-> NULL, app |-> TRUE, type |-> type, kind |-> kind,
   userMessage |-> getDefaultUserMessage(type),
   recoveryStrategy |-> getDefaultRecoveryStrategy(type)]

\* Any other rejection: an Error that is not an AppError.  ErrorType has no
\* member for Conflict or NotFound, so a 409 or 404 answer of the backend
\* can only arrive as such an error; kind records what the failure was and
\* is never read by the code.
PlainError(kind) ==
  [ok |-> FALSE, value |-> NULL, app |-> FALSE, type |-> NULL, kind |-> kind,
   userMessage |-> <<>>, recoveryStrategy |-> NULL]

\* An attempt that resolved to v.
Resolved(v) ==
  [ok |-> TRUE, value |-> v, app |-> FALSE, type |-> NULL, kind |-> NULL,
   userMessage |-> <<>>, recoveryStrategy |-> NULL]

OperationErrors ==
  {ClientAppError(t, KindOfType(t)) : t \in ErrorTypes}
    \cup {PlainError(k) : k \in {"Conflict", "NotFound", "Network", "Unknown"}}

\* What the operation can resolve to; NULL is a null result.
Values == {"value", NULL}

RECURSIVE Pow2(_)
Pow2(k) == IF k <= 0 THEN 1 ELSE 2 * Pow2(k - 1)

\* The earlier version of the wrapper waits retryDelay before every retry.
BackoffDelay_Constant(retryDelay, attempt) == retryDelay

\* const delay = retryDelay * Math.pow(2, attempt)
BackoffDelay(retryDelay, attempt) == retryDelay * Pow2(attempt)

\* A retry test that gives up one attempt early.
ShouldRetry_OffByOne(attempt, retryCount, appError) ==
  attempt + 1 < retryCount /\ appError.recoveryStrategy = "RETRY"

\* if (attempt < retryCount && appError.recoveryStrategy === RETRY)
ShouldRetry(attempt, retryCount, appError) ==
  attempt < retryCount /\ appError.recoveryStrategy = "RETRY"

\* A wrapper that reports a successful retry at error level.
SuccessLog_AsError(attempt, logError, log) ==
  IF attempt > 0 /\ logError
  THEN Append(log, [level |-> "error", attempt |-> attempt + 1])
  ELSE log

\* if (attempt > 0 && logError) logger.info('Operation succeeded after ...')
SuccessLog(attempt, logError, log) ==
  IF attempt > 0 /\ logError
  THEN Append(log, [level |-> "info", attempt |-> attempt + 1])
  ELSE log

\* if (logError) logger.error('Operation failed (attempt k/n)')
FailureLog(attempt, logError, log) ==
  IF logError
  THEN Append(log, [level |-> "error", attempt |-> attempt + 1])
  ELSE log

\* lastError instanceof AppError ? lastError : new AppError(message, UNKNOWN)
ToAppError(e) == IF e.app THEN e ELSE ClientAppError("UNKNOWN", e.kind)

IdleHandler ==
  [pc |-> "idle", attempt |-> 0, retryCount |-> 0, retryDelay |-> 0,
   logError |-> FALSE, showToast |-> FALSE, delay |-> 0,
   invocations |-> 0, waits |-> <<>>, log |-> <<>>, history |-> <<>>,
   lastError |-> None, outcome |-> "none", value |-> NULL, thrown |-> None]

\* Entering handleAsyncOperation: the for loop runs its first attempt when
\* 0 <= retryCount, else falls through to return fallbackValue.
EnterHandler(n, d, toast, logE) ==
  IF 0 <= n
  THEN [IdleHandler EXCEPT !.pc = "attempt", !.retryCount = n,
                           !.retryDelay = d, !.showToast = toast,
                           !.logError = logE]
  ELSE [IdleHandler EXCEPT !.pc = "done", !.retryCount = n,
                           !.retryDelay = d, !.showToast = toast,
                           !.logError = logE, !.outcome = "resolved"]

\* A caller invokes handleAsyncOperation(operation, config) directly.
CallHandle(n, d, toast, logE) ==
  /\ h.pc = "idle"
  /\ hook.pc = "idle"
  /\ h' = EnterHandler(n, d, toast, logE)
  /\ UNCHANGED <<hook, schema, rows, nextId, clock, call, pool, isConnected, dbop, ls, sf, lq, resp, san, mon, loader, lr, svc, rl, eh>>

\* try { const result = await operation(); ... return result }
AttemptSucceeds(v) ==
  /\ h.pc = "attempt"
  /\ h' = [h EXCEPT
             !.pc = "done", !.invocations = @ + 1,
             !.history = Append(@, Resolved(v)),
             !.log = SuccessLog(h.attempt, h.logError, @),
             !.outcome = "resolved", !.value = v]
  /\ UNCHANGED <<hook, schema, rows, nextId, clock, call, pool, isConnected, dbop, ls, sf, lq, resp, san, mon, loader, lr, svc, rl, eh>>

\* catch (error): classify, log, then either schedule the backoff timer and
\* continue, or break; after the loop throw lastError when showToast, else
\* return fallbackValue.
AttemptFails(e) ==
  /\ h.pc = "attempt"
  /\ LET appError == ToAppError(e)
         logged == FailureLog(h.attempt, h.logError, h.log)
     IN IF ShouldRetry(h.attempt, h.retryCount, appError)
        THEN h' = [h EXCEPT
                     !.pc = "waiting", !.invocations = @ + 1,
                     !.history = Append(@, e), !.log = logged,
                     !.lastError = e,
                     !.delay = BackoffDelay(h.retryDelay, h.attempt)]
        ELSE h' = [h EXCEPT
                     !.pc = "done", !.invocations = @ + 1,
                     !.history = Append(@, e), !.log = logged,
                     !.lastError = appError,
                     !.outcome = IF h.showToast THEN "rejected" ELSE "resolved",
                     !.thrown = IF h.showToast THEN appError ELSE None,
                     !.value = NULL]
  /\ UNCHANGED <<hook, schema, rows, nextId, clock, call, pool, isConnected, dbop, ls, sf, lq, resp, san, mon, loader, lr, svc, rl, eh>>

\* The setTimeout(resolve, delay) fires; continue: attempt++, and the loop
\* goes on while attempt <= retryCount.  Leaving the loop this way, lastError
\* is the error as the operation threw it.
TimerFires ==
  /\ h.pc = "waiting"
  /\ IF h.attempt + 1 <= h.retryCount
     THEN h' = [h EXCEPT !.pc = "attempt", !.attempt = @ + 1,
                         !.waits = Append(@, h.delay), !.delay = 0]
     ELSE h' = [h EXCEPT
                  !.pc = "done", !.attempt = @ + 1,
                  !.waits = Append(@, h.delay), !.delay = 0,
                  !.outcome = IF h.showToast THEN "rejected" ELSE "resolved",
                  !.thrown = IF h.showToast THEN h.lastError ELSE None,
                  !.value = NULL]
  /\ UNCHANGED <<hook, schema, rows, nextId, clock, call, pool, isConnected, dbop, ls, sf, lq, resp, san, mon, loader, lr, svc, rl, eh>>

\* The direct caller has the outcome.
HandleReturn ==
  /\ h.pc = "done"
  /\ hook.pc = "idle"
  /\ h' = IdleHandler
  /\ UNCHANGED <<hook, schema, rows, nextId, clock, call, pool, isConnected, dbop, ls, sf, lq, resp, san, mon, loader, lr, svc, rl, eh>>

IdleHook ==
  [pc |-> "idle", loading |-> FALSE, error |-> <<>>, showToast |-> FALSE,
   outcome |-> "none", value |-> NULL, thrown |-> None, toasts |-> 0,
   failedAll |-> FALSE]

\* useLoadingState.executeOperation up to its await: setLoading(true),
\* setError(null), handleAsyncOperation(operation, {showToast: false,
\* logError: logErrors, retryCount, retryDelay}).
ExecuteOperation(n, d, toast, logErrors) ==
  /\ hook.pc = "idle"
  /\ h.pc = "idle"
  /\ hook' = [IdleHook EXCEPT !.pc = "awaiting", !.loading = TRUE,
                              !.showToast = toast]
  /\ h' = EnterHandler(n, d, FALSE, logErrors)
  /\ UNCHANGED <<schema, rows, nextId, clock, call, pool, isConnected, dbop, ls, sf, lq, resp, san, mon, loader, lr, svc, rl, eh>>

\* The rest of executeOperation once handleAsyncOperation settles:
\* a non-null result is returned, null is returned as null; a rejection is
\* converted to an AppError, stored with setError and rethrown; finally
\* setLoading(false).
ExecuteOperationSettles ==
  /\ hook.pc = "awaiting"
  /\ h.pc = "done"
  /\ LET failed == h.history # <<>> /\ ~h.history[Len(h.history)].ok
     IN IF h.outcome = "resolved"
        THEN hook' = [hook EXCEPT !.pc = "done", !.loading = FALSE,
                                  !.outcome = "resolved", !.value = h.value,
                                  !.failedAll = failed]
        ELSE LET appError == ToAppError(h.thrown)
             IN hook' = [hook EXCEPT
                           !.pc = "done", !.loading = FALSE,
                           !.outcome = "rejected", !.thrown = appError,
                           !.error = appError.userMessage,
                           !.toasts = IF hook.showToast THEN 1 ELSE 0,
                           !.failedAll = failed]
  /\ h' = IdleHandler
  /\ UNCHANGED <<schema, rows, nextId, clock, call, pool, isConnected, dbop, ls, sf, lq, resp, san, mon, loader, lr, svc, rl, eh>>

\* The component has the outcome; loading and error stay as they are.
HookReturn ==
  /\ hook.pc = "done"
  /\ hook' = [hook EXCEPT !.pc = "idle", !.outcome = "none",
                          !.value = NULL, !.thrown = None,
                          !.failedAll = FALSE, !.toasts = 0]
  /\ UNCHANGED <<h, schema, rows, nextId, clock, call, pool, isConnected, dbop, ls, sf, lq, resp, san, mon, loader, lr, svc, rl, eh>>

RetryInit ==
  /\ h = IdleHandler
  /\ hook = IdleHook

(***************************************************************************)
(* The simple server: POST /api/passwords                                  *)
(***************************************************************************)
\* The bodies of the POST: every field given, or the password empty.
SimpleBodies ==
  PasswordData \cup {[d EXCEPT !.password = ""] : d \in PasswordData}

\* app.post('/api/passwords'): 400 when a field is missing or empty, else
\* one INSERT; 201 with the row, 500 whatever the INSERT rejected with.
SimplePost(c, body) ==
  /\ call[c].pc = "idle"
  /\ nextId <= MaxRows
  /\ clock <= MaxClock
  /\ LET started == [IdleCall EXCEPT !.op = "simple_post", !.pc = "done",
                                     !.data = body]
         r == InsertedRow(nextId, body, clock)
     IN IF body.service = "" \/ body.username = "" \/ body.password = ""
        THEN /\ call' = [call EXCEPT ![c] =
                           [started EXCEPT !.outcome = "error",
                                           !.statusCode = 400]]
             /\ UNCHANGED <<rows, nextId, clock>>
        ELSE IF UniqueViolation(schema, rows, r)
        THEN /\ call' = [call EXCEPT ![c] =
                           [started EXCEPT !.outcome = "error",
                                           !.statusCode = 500]]
             /\ clock' = After(clock)
             /\ UNCHANGED <<rows, nextId>>
        ELSE /\ rows' = rows \cup {r}
             /\ nextId' = nextId + 1
             /\ clock' = After(clock)
             /\ call' = [call EXCEPT ![c] =
                           [started EXCEPT !.outcome = "ok", !.ret = r,
                                           !.statusCode = 201]]
  /\ UNCHANGED <<schema, pool, isConnected, dbop, h, hook, ls, sf, lq, resp, san, mon, loader, lr, svc, rl, eh>>

(***************************************************************************)
(* GET /api/passwords: the query string, its validation, the repository    *)
(***************************************************************************)
PageMin == 1
PageMax == 1000
LimitMin == 1
LimitMax == 100
DefaultPage == 1
DefaultLimit == 50

\* A JavaScript number: an integer or NaN.
Num(n) == [nan |-> FALSE, n |-> n]
NaN == [nan |-> TRUE, n |-> 0]

\* The values of a parameter of req.query: absent, or a string.  The
\* queries are those whose page and limit have up to MaxQueryLen characters
\* together.
QueryChars == {"0", "1", "-", "a"}
QueryStrings(n) == UNION {[1..k -> QueryChars] : k \in 0..n}
Omitted == [present |-> FALSE, text |-> <<>>]
QueryValues(n) ==
  {Omitted} \cup {[present |-> TRUE, text |-> t] : t \in QueryStrings(n)}
QueryLen(v) == Len(v.text)

IsDigit(ch) == ch \in {"0", "1"}
DigitValue(ch) == IF ch = "1" THEN 1 ELSE 0

\* The longest prefix of digits.
RECURSIVE LeadingDigits(_)
LeadingDigits(t) ==
  IF t = <<>> \/ ~IsDigit(Head(t)) THEN <<>>
  ELSE <<Head(t)>> \o LeadingDigits(Tail(t))

RECURSIVE DecimalValue(_)
DecimalValue(d) ==
  IF d = <<>> THEN 0
  ELSE 10 * DecimalValue(SubSeq(d, 1, Len(d) - 1)) + DigitValue(d[Len(d)])

\* parseInt(string): an optional sign, then the digits up to the first
\* character that is none; NaN without a digit.
parseInt(t) ==
  LET negative == t # <<>> /\ Head(t) = "-"
      digits == LeadingDigits(IF negative THEN Tail(t) ELSE t)
  IN IF digits = <<>> THEN NaN
     ELSE Num(IF negative THEN 0 - DecimalValue(digits) ELSE DecimalValue(digits))

\* Math.min(x, n)
MathMin(x, n) == IF x.nan THEN NaN ELSE Num(IF x.n < n THEN x.n ELSE n)

\* validateSearchParams accepting a page above 1000.
validateSearchParams_NoPageMax(params) ==
  (IF params.page.nan \/ params.page.n < PageMin THEN {"page"} ELSE {})
  \cup (IF params.limit.nan \/ params.limit.n < LimitMin
            \/ params.limit.n > LimitMax
         THEN {"limit"} ELSE {})

\* ValidationService.validateSearchParams over searchParamsSchema: the
\* fields with an issue; any issue is thrown as AppError 400.
validateSearchParams(params) ==
  (IF params.page.nan \/ params.page.n < PageMin \/ params.page.n > PageMax
   THEN {"page"} ELSE {})
  \cup (IF params.limit.nan \/ params.limit.n < LimitMin
            \/ params.limit.n > LimitMax
         THEN {"limit"} ELSE {})

IdleQuery ==
  [pc |-> "idle", pageOmitted |-> FALSE, limitOmitted |-> FALSE,
   askedPage |-> NaN, askedLimit |-> NaN, page |-> 0, limit |-> 0,
   reached |-> FALSE, offset |-> 0, statusCode |-> 0]

\* PasswordController.getPasswords up to the call of the service
ControllerGetPasswords(query) ==
  /\ lq.pc = "idle"
  /\ LET page == IF query.page.present THEN parseInt(query.page.text)
                 ELSE Num(DefaultPage)
         limit == IF query.limit.present THEN parseInt(query.limit.text)
                  ELSE Num(DefaultLimit)
         params == [page |-> page, limit |-> MathMin(limit, LimitMax)]
         asked == [IdleQuery EXCEPT !.pageOmitted = ~query.page.present,
                                    !.limitOmitted = ~query.limit.present,
                                    !.askedPage = page, !.askedLimit = limit]
     IN lq' = IF validateSearchParams(params) # {}
              THEN [asked EXCEPT !.pc = "respond", !.statusCode = 400]
              ELSE [asked EXCEPT !.pc = "service", !.page = params.page.n,
                                 !.limit = params.limit.n]
  /\ UNCHANGED <<schema, rows, nextId, clock, call, pool, isConnected, dbop, h, hook, ls, sf, resp, san, mon, loader, lr, svc, rl, eh>>

\* PasswordService.getPasswords({page, limit}): the repository is asked for
\* limit records from offset on.
ServiceGetPasswords ==
  /\ lq.pc = "service"
  /\ LET offset == (lq.page - 1) * lq.limit
     IN \E passwords \in findWithSearch(rows, NoSearch, lq.limit, offset) :
          lq' = [lq EXCEPT !.pc = "respond", !.reached = TRUE,
                           !.offset = offset, !.statusCode = 200]
  /\ UNCHANGED <<schema, rows, nextId, clock, call, pool, isConnected, dbop, h, hook, ls, sf, resp, san, mon, loader, lr, svc, rl, eh>>

\* ResponseHelper.success or ResponseHelper.error has answered.
QueryRespond ==
  /\ lq.pc = "respond"
  /\ lq' = IdleQuery
  /\ UNCHANGED <<schema, rows, nextId, clock, call, pool, isConnected, dbop, h, hook, ls, sf, resp, san, mon, loader, lr, svc, rl, eh>>

QueryInit == lq = IdleQuery

(***************************************************************************)
(* ResponseHelper.error: the body of an error response                     *)
(***************************************************************************)
\* process.env.NODE_ENV
NodeEnvs == {"production", "development", "test"}

\* What the backend or the runtime threw: its code (NULL: none, as a
\* TypeError) and its message.
ThrownCodes == {"23505", "42703", "22P02", NULL}
ThrownMessages == {"relation violates constraint", "cannot read properties"}
Thrown(code, message) ==
  [isAppError |-> FALSE, statusCode |-> 0, code |-> code, message |-> message]

\* The messages transformDatabaseError gives its AppErrors.
TransformedMessage(code) ==
  CASE code = "DUPLICATE_ENTRY" -> "Duplicate entry found"
    [] code = "INVALID_REFERENCE" -> "Invalid reference to related resource"
    [] code = "MISSING_REQUIRED_FIELD" -> "Required field is missing"
    [] code = "TABLE_NOT_FOUND" -> "Database table not found"
    [] code = "COLUMN_NOT_FOUND" -> "Database column not found"
    [] code = "AUTH_FAILED" -> "Database authentication failed"
    [] code = "CONNECTION_REFUSED" -> "Database connection refused"
    [] code = "CONNECTION_TIMEOUT" -> "Database connection timeout"
    [] OTHER -> "Database operation failed"

\* The AppError DatabaseManager.query throws for what was thrown to it.
Classified(error) ==
  LET appError == transformDatabaseError(error)
  IN [isAppError |-> TRUE, statusCode |-> appError.statusCode,
      code |-> appError.code, message |-> TransformedMessage(appError.code)]

\* ResponseHelper.handleDatabaseError: message for a backend-native code
handleDatabaseErrorMessage(error) ==
  CASE error.code = "23505" -> "Resource already exists"
    [] error.code = "23503" -> "Invalid reference to related resource"
    [] error.code = "23502" -> "Required field is missing"
    [] error.code = "42P01" -> "Database configuration error"
    [] OTHER -> "Database operation failed"

\* ResponseHelper.error: status and JSON body (without its timestamp) for
\* an AppError, for an error with a code, for any other error.
ErrorBody(nodeEnv, error) ==
  IF error.isAppError
  THEN [status |-> error.statusCode, message |-> error.message,
        code |-> error.code, details |-> Undefined]
  ELSE IF error.code # NULL
  THEN [status |-> handleDatabaseError(error),
        message |-> handleDatabaseErrorMessage(error),
        code |-> error.code,
        details |-> IF nodeEnv = "development"
                    THEN [message |-> error.message] ELSE Undefined]
  ELSE [status |-> 500, message |-> error.message, code |-> NULL,
        details |-> IF nodeEnv = "development"
                    THEN [stack |-> error.message] ELSE Undefined]

\* A request fails with error thrown underneath; it reaches
\* ResponseHelper.error classified by DatabaseManager.query
\* (PasswordController's catch blocks) or as it was thrown
\* (DatabaseManager.transaction, the error handling middleware).
RespondError(thrown, classified) ==
  /\ Len(resp.sent) < MaxResponses
  /\ resp' = [resp EXCEPT !.sent = Append(@,
                [thrown |-> thrown, classified |-> classified,
                 kind |-> transformDatabaseError(thrown).code,
                 body |-> ErrorBody(resp.nodeEnv,
                                    IF classified THEN Classified(thrown)
                                    ELSE thrown)])]
  /\ UNCHANGED <<schema, rows, nextId, clock, call, pool, isConnected, dbop, h, hook, ls, sf, lq, san, mon, loader, lr, svc, rl, eh>>

\* The process is restarted under some NODE_ENV.
Restart(nodeEnv) ==
  /\ resp' = [nodeEnv |-> nodeEnv, sent |-> <<>>]
  /\ UNCHANGED <<schema, rows, nextId, clock, call, pool, isConnected, dbop, h, hook, ls, sf, lq, san, mon, loader, lr, svc, rl, eh>>

ResponseInit == resp = [nodeEnv |-> "production", sent |-> <<>>]

(***************************************************************************)
(* Free text: ValidationService.sanitizeSqlInput and the way of a text     *)
(* from the request to the repository                                      *)
(***************************************************************************)
\* The texts of up to MaxSanLen characters over a quote, the semicolon, the
\* characters of the two comment delimiters, an angle bracket, the space
\* and a letter.
SanChars == {"'", ";", "-", "/", "*", "<", " ", "a"}
SanTexts == UNION {[1..n -> SanChars] : n \in 0..MaxSanLen}

\* String.prototype.replace(/[...]/g, ''): every character of the class
\* is dropped.
RECURSIVE RemoveChars(_, _)
RemoveChars(t, class) ==
  IF t = <<>> THEN <<>>
  ELSE IF Head(t) \in class THEN RemoveChars(Tail(t), class)
  ELSE <<Head(t)>> \o RemoveChars(Tail(t), class)

\* String.prototype.replace(/ab/g, ''): one scan from the left; a match is
\* dropped and the scan goes on behind it.
RECURSIVE RemovePair(_, _, _)
RemovePair(t, a, b) ==
  IF Len(t) < 2 THEN t
  ELSE IF t[1] = a /\ t[2] = b THEN RemovePair(SubSeq(t, 3, Len(t)), a, b)
  ELSE <<t[1]>> \o RemovePair(Tail(t), a, b)

\* String.prototype.trim
RECURSIVE TrimStart(_)
TrimStart(t) ==
  IF t # <<>> /\ Head(t) = " " THEN TrimStart(Tail(t)) ELSE t
RECURSIVE TrimEnd(_)
TrimEnd(t) ==
  IF t # <<>> /\ t[Len(t)] = " " THEN TrimEnd(SubSeq(t, 1, Len(t) - 1))
  ELSE t
TrimText(t) == TrimEnd(TrimStart(t))

\* ValidationService.sanitizeSqlInput
sanitizeSqlInput(input) ==
  TrimText(RemovePair(RemovePair(RemoveChars(input, {"'", "\"", "\\", ";"}),
                                 "-", "-"),
                      "/", "*"))

IdleText ==
  [op |-> "none", field |-> "none", input |-> <<>>, output |-> <<>>,
   again |-> <<>>, reached |-> FALSE]

\* sanitizeSqlInput applied to a text, and to what it returned.
Sanitize(input) ==
  /\ san.op = "none"
  /\ san' = [IdleText EXCEPT !.op = "sanitize", !.input = input,
                             !.output = sanitizeSqlInput(input),
                             !.again = sanitizeSqlInput(sanitizeSqlInput(input))]
  /\ UNCHANGED <<schema, rows, nextId, clock, call, pool, isConnected, dbop, h, hook, ls, sf, lq, resp, mon, loader, lr, svc, rl, eh>>

\* A request whose service, username or search is input, through the
\* server's middleware (cors, express.json, express.urlencoded, request
\* logging: none changes a value), the controller (validatePasswordData or
\* validateSearchParams: the length checks, then trim) and the service to
\* the repository, which binds the value to its statement.
RouteText(field, input) ==
  /\ san.op = "none"
  /\ san' = IF field # "search" /\ Len(input) < 1
            THEN [IdleText EXCEPT !.op = "route", !.field = field,
                                  !.input = input]
            ELSE [IdleText EXCEPT !.op = "route", !.field = field,
                                  !.input = input, !.output = TrimText(input),
                                  !.reached = TRUE]
  /\ UNCHANGED <<schema, rows, nextId, clock, call, pool, isConnected, dbop, h, hook, ls, sf, lq, resp, mon, loader, lr, svc, rl, eh>>

\* The caller has the text, the request its answer.
TextDone ==
  /\ san.op # "none"
  /\ san' = IdleText
  /\ UNCHANGED <<schema, rows, nextId, clock, call, pool, isConnected, dbop, h, hook, ls, sf, lq, resp, mon, loader, lr, svc, rl, eh>>

SanitizeInit == san = IdleText

(***************************************************************************)
(* ConfigPerformanceMonitor: the cache counters                            *)
(***************************************************************************)
\* this.metrics as the constructor and resetMetrics set it.  hitCalls and
\* missCalls count the calls of recordCacheHit and recordCacheMiss since.
NewMonitor(wasReset) ==
  [metrics |-> [cacheHits |-> 0, cacheMisses |-> 0],
   hitCalls |-> 0, missCalls |-> 0, wasReset |-> wasReset, got |-> None]

\* ConfigPerformanceMonitor.recordCacheHit
recordCacheHit ==
  /\ mon.hitCalls < MaxRecorded
  /\ mon' = [mon EXCEPT !.metrics.cacheHits = @ + 1, !.hitCalls = @ + 1]
  /\ UNCHANGED <<schema, rows, nextId, clock, call, pool, isConnected, dbop, h, hook, ls, sf, lq, resp, san, loader, lr, svc, rl, eh>>

\* recordCacheMiss counting a hit.
recordCacheMiss_CountsHit ==
  /\ mon.missCalls < MaxRecorded
  /\ mon' = [mon EXCEPT !.metrics.cacheHits = @ + 1, !.missCalls = @ + 1]
  /\ UNCHANGED <<schema, rows, nextId, clock, call, pool, isConnected, dbop, h, hook, ls, sf, lq, resp, san, loader, lr, svc, rl, eh>>

\* ConfigPerformanceMonitor.recordCacheMiss
recordCacheMiss ==
  /\ mon.missCalls < MaxRecorded
  /\ mon' = [mon EXCEPT !.metrics.cacheMisses = @ + 1, !.missCalls = @ + 1]
  /\ UNCHANGED <<schema, rows, nextId, clock, call, pool, isConnected, dbop, h, hook, ls, sf, lq, resp, san, loader, lr, svc, rl, eh>>

\* ConfigPerformanceMonitor.getMetrics: {...this.metrics, loadTime,
\* validationTime, memoryUsage}; the caller has the two counters, here with
\* the numbers of calls made up to then.
getMetrics ==
  /\ mon' = [mon EXCEPT !.got = [cacheHits |-> mon.metrics.cacheHits,
                                 cacheMisses |-> mon.metrics.cacheMisses,
                                 hitCalls |-> mon.hitCalls,
                                 missCalls |-> mon.missCalls]]
  /\ UNCHANGED <<schema, rows, nextId, clock, call, pool, isConnected, dbop, h, hook, ls, sf, lq, resp, san, loader, lr, svc, rl, eh>>

\* ConfigPerformanceMonitor.resetMetrics
resetMetrics ==
  /\ mon' = NewMonitor(TRUE)
  /\ UNCHANGED <<schema, rows, nextId, clock, call, pool, isConnected, dbop, h, hook, ls, sf, lq, resp, san, loader, lr, svc, rl, eh>>

MonitorInit == mon = NewMonitor(FALSE)

(***************************************************************************)
(* useLoadingState: several executeOperation calls on one instance         *)
(***************************************************************************)
\* The calls usePasswords makes on its one useLoadingState instance.
Operations == 1..MaxInFlight

\* useState(false), useState(null); no call made.
NewLoader ==
  [loading |-> FALSE, error |-> FALSE,
   pc |-> [o \in Operations |-> "idle"]]

\* executeOperation up to its await: setLoading(true), setError(null).
OperationStarts(o) ==
  /\ loader.pc[o] = "idle"
  /\ loader' = [loader EXCEPT !.loading = TRUE, !.error = FALSE,
                              !.pc[o] = "awaiting"]
  /\ UNCHANGED <<schema, rows, nextId, clock, call, pool, isConnected, dbop, h, hook, ls, sf, lq, resp, san, mon, lr, svc, rl, eh>>

\* The rest of executeOperation once handleAsyncOperation settles: the
\* result is returned, or setError and rethrow; finally setLoading(false).
OperationSettles(o, rejected) ==
  /\ loader.pc[o] = "awaiting"
  /\ loader' = [loader EXCEPT !.loading = FALSE,
                              !.error = IF rejected THEN TRUE ELSE @,
                              !.pc[o] = "done"]
  /\ UNCHANGED <<schema, rows, nextId, clock, call, pool, isConnected, dbop, h, hook, ls, sf, lq, resp, san, mon, lr, svc, rl, eh>>

\* The caller of executeOperation has the outcome.
OperationReturns(o) ==
  /\ loader.pc[o] = "done"
  /\ loader' = [loader EXCEPT !.pc[o] = "idle"]
  /\ UNCHANGED <<schema, rows, nextId, clock, call, pool, isConnected, dbop, h, hook, ls, sf, lq, resp, san, mon, lr, svc, rl, eh>>

LoaderInit == loader = NewLoader

(***************************************************************************)
(* PasswordService.getPasswords beside calls that change the table         *)
(***************************************************************************)
\* No getPasswords call in flight.  seen is the table as the SELECT of the
\* page read it.
IdleRead ==
  [pc |-> "idle", limit |-> 0, paged |-> FALSE, counted |-> FALSE,
   data |-> <<>>, total |-> 0, seen |-> {}]

\* getPasswords({page: 1, limit}): Promise.all starts findWithSearch and
\* countWithSearch, one db.query each.
ReadStarts(limit) ==
  /\ lr.pc = "idle"
  /\ lr' = [IdleRead EXCEPT !.pc = "reading", !.limit = limit]
  /\ UNCHANGED <<schema, rows, nextId, clock, call, pool, isConnected, dbop, h, hook, ls, sf, lq, resp, san, mon, loader, svc, rl, eh>>

\* The SELECT of findWithSearch executes.
ReadPage ==
  /\ lr.pc = "reading"
  /\ ~lr.paged
  /\ \E passwords \in findWithSearch(rows, NoSearch, lr.limit, 0) :
       lr' = [lr EXCEPT !.paged = TRUE, !.data = passwords, !.seen = rows]
  /\ UNCHANGED <<schema, rows, nextId, clock, call, pool, isConnected, dbop, h, hook, ls, sf, lq, resp, san, mon, loader, svc, rl, eh>>

\* The SELECT COUNT(*) of countWithSearch executes.
ReadCount ==
  /\ lr.pc = "reading"
  /\ ~lr.counted
  /\ lr' = [lr EXCEPT !.counted = TRUE,
                      !.total = countWithSearch(rows, NoSearch)]
  /\ UNCHANGED <<schema, rows, nextId, clock, call, pool, isConnected, dbop, h, hook, ls, sf, lq, resp, san, mon, loader, svc, rl, eh>>

\* Both promises are fulfilled: {data, pagination: {total, ...}} is
\* returned.
ReadReturns ==
  /\ lr.pc = "reading"
  /\ lr.paged /\ lr.counted
  /\ lr' = [lr EXCEPT !.pc = "done"]
  /\ UNCHANGED <<schema, rows, nextId, clock, call, pool, isConnected, dbop, h, hook, ls, sf, lq, resp, san, mon, loader, svc, rl, eh>>

\* The caller has the list.
ReadDone ==
  /\ lr.pc = "done"
  /\ lr' = IdleRead
  /\ UNCHANGED <<schema, rows, nextId, clock, call, pool, isConnected, dbop, h, hook, ls, sf, lq, resp, san, mon, loader, svc, rl, eh>>

ListReadInit == lr = IdleRead

(***************************************************************************)
(* ServiceFactory: detection and the cache of service instances            *)
(***************************************************************************)
\* ENV_CONFIG.DATABASE_URL: not set, set to something that is no connection
\* string, set to a connection string.
NoUrl == ""
MalformedUrl == "not-a-url"
ConnectionUrl == "postgresql://user:pw@host/db"
DatabaseUrls == {NoUrl, MalformedUrl, ConnectionUrl}

\* The configuration snapshot: ENV_CONFIG.DATABASE_URL, ENV_CONFIG.USE_NEONDB
\* and API_CONFIG.ENABLE_SYNC.
Configurations ==
  [DATABASE_URL : DatabaseUrls, USE_NEONDB : BOOLEAN, ENABLE_SYNC : BOOLEAN]

\* detectServiceType reading the force flag only.
detectServiceType_FlagOnly(env) ==
  IF env.USE_NEONDB THEN "neondb" ELSE "indexeddb"

\* ServiceFactory.detectServiceType
detectServiceType(env) ==
  LET hasNeonConfig == env.DATABASE_URL # NoUrl
      forceNeonDB == env.USE_NEONDB
  IN IF forceNeonDB \/ hasNeonConfig THEN "neondb" ELSE "indexeddb"

\* The keys of ServiceFactory.services
ServiceKey(prefix, enableApiSync) == <<prefix, enableApiSync>>
ServiceKeys ==
  {ServiceKey(p, b) : p \in {"neon-password-service",
                             "password-service-indexeddb"},
                      b \in BOOLEAN}

\* No instance: an absent map entry, the unset static instance.
NoInstance == [id |-> 0, kind |-> "none"]
Instance(id, kind) == [id |-> id, kind |-> kind]

\* What a call of the factory leaves: the services map, the static instance
\* of PasswordService, the number of instances constructed, and the
\* instance returned.
Made(services, singleton, made, ret) ==
  [services |-> services, singleton |-> singleton, made |-> made, ret |-> ret]

\* PasswordService.getInstance: the static instance, constructed if unset.
PasswordService_getInstance(singleton, made) ==
  IF singleton # NoInstance
  THEN [instance |-> singleton, made |-> made]
  ELSE [instance |-> Instance(made + 1, "indexeddb"), made |-> made + 1]

\* PasswordService.resetInstance: the static instance is unset.
PasswordService_resetInstance == NoInstance

\* createPasswordService that constructs without looking at the map.
createPasswordService_NoCache(f, config) ==
  LET detectedType == IF config.repositoryType # "none" THEN config.repositoryType
                      ELSE detectServiceType(f.env)
      shouldUseNeonDB == config.forceNeonDB \/ detectedType = "neondb"
      key == IF shouldUseNeonDB
             THEN ServiceKey("neon-password-service", config.enableApiSync)
             ELSE ServiceKey("password-service-indexeddb", config.enableApiSync)
      kind == IF shouldUseNeonDB THEN "neondb" ELSE "indexeddb"
      new == Instance(f.made + 1, kind)
  IN Made([f.services EXCEPT ![key] = new],
          IF shouldUseNeonDB THEN f.singleton ELSE new, f.made + 1, new)

\* ServiceFactory.createPasswordService({enableApiSync, repositoryType,
\* forceNeonDB}).  new NeonPasswordService(...) constructs an instance.
createPasswordService(f, config) ==
  LET detectedType == IF config.repositoryType # "none" THEN config.repositoryType
                      ELSE detectServiceType(f.env)
      shouldUseNeonDB == config.forceNeonDB \/ detectedType = "neondb"
      key == IF shouldUseNeonDB
             THEN ServiceKey("neon-password-service", config.enableApiSync)
             ELSE ServiceKey("password-service-indexeddb", config.enableApiSync)
  IN IF f.services[key] # NoInstance
     THEN Made(f.services, f.singleton, f.made, f.services[key])
     ELSE IF shouldUseNeonDB
     THEN LET service == Instance(f.made + 1, "neondb")
          IN Made([f.services EXCEPT ![key] = service], f.singleton,
                  f.made + 1, service)
     ELSE LET got == PasswordService_getInstance(f.singleton, f.made)
          IN Made([f.services EXCEPT ![key] = got.instance], got.instance,
                  got.made, got.instance)

\* A call of the factory returns: the state it leaves and the entry of the
\* call in the history of returns.
FactoryReturns(fn, m) ==
  /\ Len(sf.log) < MaxFactoryCalls
  /\ sf' = [sf EXCEPT !.services = m.services, !.singleton = m.singleton,
                      !.made = m.made,
                      !.log = Append(@, [fn |-> fn, ret |-> m.ret,
                                         epoch |-> sf.epoch,
                                         fresh |-> m.made > sf.made])]
  /\ UNCHANGED <<schema, rows, nextId, clock, call, pool, isConnected, dbop, h, hook, ls, lq, resp, san, mon, loader, lr, svc, rl, eh>>

\* ServiceFactory.getDefaultPasswordService
getDefaultPasswordService ==
  FactoryReturns("getDefault",
    createPasswordService(sf, [enableApiSync |-> sf.env.ENABLE_SYNC,
                               repositoryType |-> detectServiceType(sf.env),
                               forceNeonDB |-> FALSE]))

\* ServiceFactory.getNeonPasswordService
getNeonPasswordService ==
  FactoryReturns("getNeon",
    createPasswordService(sf, [enableApiSync |-> TRUE,
                               repositoryType |-> "none",
                               forceNeonDB |-> TRUE]))

\* ServiceFactory.getIndexedDBPasswordService
getIndexedDBPasswordService ==
  FactoryReturns("getIndexedDB",
    createPasswordService(sf, [enableApiSync |-> FALSE,
                               repositoryType |-> "indexeddb",
                               forceNeonDB |-> FALSE]))

\* clearCache that leaves the static instance of PasswordService set.
clearCache_KeepsInstance ==
  /\ Len(sf.log) < MaxFactoryCalls
  /\ sf' = [sf EXCEPT !.services = [k \in ServiceKeys |-> NoInstance],
                      !.epoch = @ + 1,
                      !.log = Append(@, [fn |-> "clearCache", ret |-> NoInstance,
                                         epoch |-> sf.epoch, fresh |-> FALSE])]
  /\ UNCHANGED <<schema, rows, nextId, clock, call, pool, isConnected, dbop, h, hook, ls, lq, resp, san, mon, loader, lr, svc, rl, eh>>

\* ServiceFactory.clearCache: services.clear() and
\* PasswordService.resetInstance()
clearCache ==
  /\ Len(sf.log) < MaxFactoryCalls
  /\ sf' = [sf EXCEPT !.services = [k \in ServiceKeys |-> NoInstance],
                      !.singleton = PasswordService_resetInstance,
                      !.epoch = @ + 1,
                      !.log = Append(@, [fn |-> "clearCache", ret |-> NoInstance,
                                         epoch |-> sf.epoch, fresh |-> FALSE])]
  /\ UNCHANGED <<schema, rows, nextId, clock, call, pool, isConnected, dbop, h, hook, ls, lq, resp, san, mon, loader, lr, svc, rl, eh>>

NewFactory(env) ==
  [env |-> env, services |-> [k \in ServiceKeys |-> NoInstance],
   singleton |-> NoInstance, made |-> 0, epoch |-> 0, log |-> <<>>]

\* The module is loaded under a configuration without remote backend.
FactoryInit ==
  sf = NewFactory([DATABASE_URL |-> NoUrl, USE_NEONDB |-> FALSE,
                   ENABLE_SYNC |-> FALSE])

(***************************************************************************)
(* PasswordService.getPasswords over DatabaseManager.query                 *)
(***************************************************************************)
\* The statements of one getPasswords call: findWithSearch and
\* countWithSearch, each one this.db.query(...).
ListStatements == {1, 2}

IdleService ==
  [pc |-> "idle", kind |-> "none", stmts |-> {}, outcome |-> "none"]

\* DatabaseManager.query up to its first await: waiting in pool.connect(),
\* or thrown on a missing pool.
QueryEntered ==
  IF pool.created
  THEN [IdleOp EXCEPT !.kind = "query", !.pc = "q_connect"]
  ELSE [IdleOp EXCEPT !.kind = "query", !.pc = "done",
          !.outcome = "error",
          !.thrown = transformDatabaseError(AppError(500, NULL)),
          !.log = <<Ev("CLASSIFY", TRUE), Ev("THROW", TRUE)>>]

\* Promise.all([findWithSearch(...), countWithSearch(...)]): the array is
\* built before the await, so both queries are under way at once.
GetPasswords ==
  /\ svc.pc = "idle"
  /\ \A o \in ListStatements : dbop[o].pc = "idle"
  /\ dbop' = [o \in Ops |->
                IF o \in ListStatements THEN QueryEntered ELSE dbop[o]]
  /\ svc' = [IdleService EXCEPT !.pc = "running", !.kind = "list",
                                !.stmts = ListStatements]
  /\ UNCHANGED <<pool, isConnected, schema, rows, nextId, clock, call, h, hook, ls, sf, lq, resp, san, mon, loader, lr, rl, eh>>

\* Promise.all rejects with the first rejection (catch: AppError 500) and
\* resolves when every statement has resolved.
GetPasswordsSettles ==
  /\ svc.pc = "running"
  /\ \/ /\ \E o \in svc.stmts :
             dbop[o].pc = "done" /\ dbop[o].outcome = "error"
        /\ svc' = [svc EXCEPT !.pc = "done", !.outcome = "rejected"]
     \/ /\ \A o \in svc.stmts :
             dbop[o].pc = "done" /\ dbop[o].outcome = "ok"
        /\ svc' = [svc EXCEPT !.pc = "done", !.outcome = "resolved"]
  /\ UNCHANGED <<pool, isConnected, dbop, schema, rows, nextId, clock, call, h, hook, ls, sf, lq, resp, san, mon, loader, lr, rl, eh>>

\* The controller has the outcome and every statement has run out.
GetPasswordsReturns ==
  /\ svc.pc = "done"
  /\ \A o \in svc.stmts : dbop[o].pc = "done"
  /\ dbop' = [o \in Ops |-> IF o \in svc.stmts THEN IdleOp ELSE dbop[o]]
  /\ svc' = IdleService
  /\ UNCHANGED <<pool, isConnected, schema, rows, nextId, clock, call, h, hook, ls, sf, lq, resp, san, mon, loader, lr, rl, eh>>

ServiceInit == svc = IdleService

\* One getPasswords call at a time over the pool, with initialize() of the
\* manager before, between and (on a free slot) beside the calls.
NextService ==
  \/ GetPasswords
  \/ \E o \in Ops : dbop[o].kind = "query" /\ QueryConnect(o)
  \/ \E o \in Ops : dbop[o].kind = "query" /\ QueryExec(o)
  \/ GetPasswordsSettles
  \/ GetPasswordsReturns
  \/ \E o \in Ops : StartInitialize(o)
  \/ \E o \in Ops : TestConnect(o)
  \/ \E o \in Ops : TestQuery(o)
  \/ \E o \in Ops : dbop[o].kind = "initialize" /\ DbReturn(o)

(***************************************************************************)
(* rateLimiter(maxRequests, windowMs)                                      *)
(***************************************************************************)
\* The middleware is built with maxRequests = MaxRequests and
\* windowMs = WindowMs; Date.now() runs from 0 to MaxNow.
MaxRequests == 2
WindowMs == 2
MaxNow == 3

\* req.ip || req.connection.remoteAddress
Identifiers == {"10.0.0.1", "10.0.0.2"}

\* userRequests.filter(time => time > windowStart)
RecentRequests(times, windowStart) ==
  SelectSeq(times, LAMBDA time : time > windowStart)

\* The clean-up loop over requests.entries(): every key keeps its recent
\* timestamps; a key left with none is deleted (read back as []).
CleanedRequests(requests, windowStart) ==
  [key \in Identifiers |-> RecentRequests(requests[key], windowStart)]

\* A limiter that lets the request through when the window is just full.
TooManyRequests_Exceeded(recentRequests) ==
  Len(recentRequests) > MaxRequests

\* if (recentRequests.length >= maxRequests)
TooManyRequests(recentRequests) ==
  Len(recentRequests) >= MaxRequests

NoAnswer == [identifier |-> NULL, status |-> 0, at |-> 0, forwardedBefore |-> 0]

\* requests = new Map(); forwarded and answer record what the middleware
\* did: the times at which it called next() per identifier, and its last
\* decision with the number of forwards of that identifier in the window
\* before it.
NewLimiter ==
  [requests |-> [key \in Identifiers |-> <<>>],
   now |-> 0,
   forwarded |-> [key \in Identifiers |-> <<>>],
   answer |-> NoAnswer]

\* The forwards of one identifier during the windowMs before instant t.
ForwardedDuring(forwarded, identifier, t) ==
  Len(SelectSeq(forwarded[identifier],
                LAMBDA time : time > t - WindowMs /\ time <= t))

\* One request passes the middleware: clean up, count, then either
\* ResponseHelper.error(res, AppError('Too many requests', 429)) or
\* recentRequests.push(now); requests.set(identifier, recentRequests); next()
rateLimiter(identifier) ==
  /\ LET now == rl.now
         windowStart == now - WindowMs
         cleaned == CleanedRequests(rl.requests, windowStart)
         recentRequests == RecentRequests(cleaned[identifier], windowStart)
         before == ForwardedDuring(rl.forwarded, identifier, now)
     IN IF TooManyRequests(recentRequests)
        THEN rl' = [rl EXCEPT
                      !.requests = cleaned,
                      !.answer = [identifier |-> identifier, status |-> 429,
                                  at |-> now, forwardedBefore |-> before]]
        ELSE rl' = [rl EXCEPT
                      !.requests = [cleaned EXCEPT ![identifier] =
                                      Append(recentRequests, now)],
                      !.forwarded = [@ EXCEPT ![identifier] =
                                       Append(@, now)],
                      !.answer = [identifier |-> identifier, status |-> 200,
                                  at |-> now, forwardedBefore |-> before]]
  /\ UNCHANGED <<schema, rows, nextId, clock, call, pool, isConnected, dbop, h, hook, ls, sf, lq, resp, san, mon, loader, lr, svc, eh>>

\* Date.now() advances by a millisecond.
TimePasses ==
  /\ rl.now < MaxNow
  /\ rl' = [rl EXCEPT !.now = @ + 1]
  /\ UNCHANGED <<schema, rows, nextId, clock, call, pool, isConnected, dbop, h, hook, ls, sf, lq, resp, san, mon, loader, lr, svc, eh>>

LimiterInit == rl = NewLimiter

NextLimiter ==
  \/ \E identifier \in Identifiers : rateLimiter(identifier)
  \/ TimePasses

(***************************************************************************)
(* useErrorHandler                                                         *)
(***************************************************************************)
IdleErrorHandler ==
  [pc |-> "idle", showToast |-> FALSE, logError |-> FALSE,
   outcome |-> "none", value |-> NULL, handled |-> <<>>, logged |-> 0,
   toasts |-> 0, failedAll |-> FALSE]

\* handleAsyncError up to its await: handleAsyncOperation(operation,
\* {...config, showToast: false}).
HandleAsyncError(n, d, toast, logE) ==
  /\ eh.pc = "idle"
  /\ h.pc = "idle"
  /\ hook.pc = "idle"
  /\ eh' = [IdleErrorHandler EXCEPT !.pc = "awaiting", !.showToast = toast,
                                    !.logError = logE]
  /\ h' = EnterHandler(n, d, FALSE, logE)
  /\ UNCHANGED <<hook, schema, rows, nextId, clock, call, pool, isConnected, dbop, ls, sf, lq, resp, san, mon, loader, lr, svc, rl>>

\* The rest of handleAsyncError once handleAsyncOperation settles: its
\* result is returned; catch (error) { handleError(error, config); return
\* null }, where handleError logs when logError and toasts when showToast.
HandleAsyncErrorSettles ==
  /\ eh.pc = "awaiting"
  /\ h.pc = "done"
  /\ LET failed == h.history # <<>> /\ ~h.history[Len(h.history)].ok
     IN IF h.outcome = "resolved"
        THEN eh' = [eh EXCEPT !.pc = "done", !.outcome = "resolved",
                              !.value = h.value, !.failedAll = failed]
        ELSE eh' = [eh EXCEPT
                      !.pc = "done", !.outcome = "resolved",
                      !.value = NULL,
                      !.handled = Append(@, ToAppError(h.thrown)),
                      !.logged = IF eh.logError THEN @ + 1 ELSE @,
                      !.toasts = IF eh.showToast THEN @ + 1 ELSE @,
                      !.failedAll = failed]
  /\ h' = IdleHandler
  /\ UNCHANGED <<hook, schema, rows, nextId, clock, call, pool, isConnected, dbop, ls, sf, lq, resp, san, mon, loader, lr, svc, rl>>

\* The caller has the outcome.
HandleAsyncErrorReturns ==
  /\ eh.pc = "done"
  /\ eh' = IdleErrorHandler
  /\ UNCHANGED <<h, hook, schema, rows, nextId, clock, call, pool, isConnected, dbop, ls, sf, lq, resp, san, mon, loader, lr, svc, rl>>

ErrorHandlerInit == eh = IdleErrorHandler

NextErrorHandler ==
  \/ \E n \in RetryCounts, d \in RetryDelays, toast \in BOOLEAN, logE \in BOOLEAN :
       HandleAsyncError(n, d, toast, logE)
  \/ \E v \in Values : AttemptSucceeds(v)
  \/ \E e \in OperationErrors : AttemptFails(e)
  \/ TimerFires
  \/ HandleAsyncErrorSettles
  \/ HandleAsyncErrorReturns

(***************************************************************************)
(* Specifications                                                          *)
(***************************************************************************)
Init == StoreInit /\ DbInit /\ RetryInit /\ ListInit /\ FactoryInit /\ QueryInit /\ ResponseInit /\ SanitizeInit /\ MonitorInit /\ LoaderInit /\ ListReadInit
  /\ ServiceInit /\ LimiterInit /\ ErrorHandlerInit

Next ==
  \/ \E c \in Calls : CreateStep(c)
  \/ \E c \in Calls : UpdateStep(c)
  \/ \E c \in Calls : DeleteStep(c)
  \/ \E c \in Calls : Return(c)
  \/ Tick

Spec == Init /\ [][Next]_vars

NextCreateRace == \E c \in Calls : CreateStep(c)

SpecCreateRace == Init /\ [][NextCreateRace]_vars

\* The life of the records of one service as their callers see it: at most
\* MaxWriters requests in flight, creating the records and updating their
\* secret while NOW() advances.
RecordData == {d \in PasswordData : d.service = "Gmail"}

NextRecord ==
  \/ \E c \in 1..MaxWriters, data \in RecordData : StartCreate(c, data)
  \/ \E c \in 1..MaxWriters : CreateFind(c)
  \/ \E c \in 1..MaxWriters : CreateBegin(c)
  \/ \E c \in 1..MaxWriters : CreateInsert(c)
  \/ \E c \in 1..MaxWriters, id \in 1..MaxRows, data \in RecordData :
       StartUpdate(c, id, data)
  \/ \E c \in 1..MaxWriters : UpdateFind(c)
  \/ \E c \in 1..MaxWriters : UpdateBegin(c)
  \/ \E c \in 1..MaxWriters : UpdateExec(c)
  \/ \E c \in 1..MaxWriters : Return(c)
  \/ Tick

SpecRecord == Init /\ [][NextRecord]_vars

\* validatePasswordData applied to the bodies of create requests: what the
\* controller does before its first await.
NextValidate ==
  \/ \E c \in 1..MaxWriters, body \in Bodies : ControllerCreate(c, body)
  \/ \E c \in 1..MaxWriters : Return(c)

SpecValidate == Init /\ [][NextValidate]_vars

\* The create, update and delete routes of the controller.
NextApi ==
  \/ \E c \in 1..MaxWriters, body \in Bodies : ControllerCreate(c, body)
  \/ \E c \in 1..MaxWriters, id \in RouteIds, body \in Bodies :
       ControllerUpdate(c, id, body)
  \/ \E c \in 1..MaxWriters, id \in RouteIds : ControllerDelete(c, id)
  \/ \E c \in 1..MaxWriters : CreateFind(c)
  \/ \E c \in 1..MaxWriters : CreateBegin(c)
  \/ \E c \in 1..MaxWriters : CreateInsert(c)
  \/ \E c \in 1..MaxWriters : UpdateFind(c)
  \/ \E c \in 1..MaxWriters : UpdateBegin(c)
  \/ \E c \in 1..MaxWriters : UpdateExec(c)
  \/ \E c \in 1..MaxWriters : DeleteFind(c)
  \/ \E c \in 1..MaxWriters : DeleteExec(c)
  \/ \E c \in 1..MaxWriters : Return(c)
  \/ Tick

SpecApi == Init /\ [][NextApi]_vars

\* A client paging through a table that does not change meanwhile.
InitList ==
  /\ schema \in Schemas
  /\ rows \in ListedTables
  /\ nextId = MaxListed + 1
  /\ clock = MaxClock + 1
  /\ call = [c \in Calls |-> IdleCall]
  /\ DbInit /\ RetryInit /\ ListInit /\ FactoryInit /\ QueryInit /\ ResponseInit /\ SanitizeInit /\ MonitorInit /\ LoaderInit /\ ListReadInit
  /\ ServiceInit /\ LimiterInit /\ ErrorHandlerInit

NextList ==
  \/ \E limit \in 1..MaxLimit : ListStart(limit, NoSearch)
  \/ getPasswords
  \/ ListReturn

SpecList == InitList /\ [][NextList]_vars

\* A client listing with a search term.
InitSearch ==
  /\ schema \in Schemas
  /\ rows \in SearchedTables
  /\ nextId = 3
  /\ clock = 2
  /\ call = [c \in Calls |-> IdleCall]
  /\ DbInit /\ RetryInit /\ ListInit /\ FactoryInit /\ QueryInit /\ ResponseInit /\ SanitizeInit /\ MonitorInit /\ LoaderInit /\ ListReadInit
  /\ ServiceInit /\ LimiterInit /\ ErrorHandlerInit

NextSearch ==
  \/ \E limit \in 1..MaxLimit, search \in SearchTerms : ListStart(limit, search)
  \/ getPasswords
  \/ ListReturn

SpecSearch == InitSearch /\ [][NextSearch]_vars

\* The factory under every configuration snapshot.
InitFactory ==
  /\ StoreInit /\ DbInit /\ RetryInit /\ ListInit /\ QueryInit
  /\ ResponseInit /\ SanitizeInit /\ MonitorInit /\ LoaderInit /\ ListReadInit
  /\ ServiceInit /\ LimiterInit /\ ErrorHandlerInit
  /\ sf \in {NewFactory(env) : env \in Configurations}

NextFactory ==
  \/ getDefaultPasswordService
  \/ getNeonPasswordService
  \/ getIndexedDBPasswordService
  \/ clearCache

SpecFactory == InitFactory /\ [][NextFactory]_vars

\* List requests over every query string.
NextQuery ==
  \/ \E page \in QueryValues(MaxQueryLen) :
       \E limit \in QueryValues(MaxQueryLen - QueryLen(page)) :
         ControllerGetPasswords([page |-> page, limit |-> limit])
  \/ ServiceGetPasswords
  \/ QueryRespond

SpecQuery == Init /\ [][NextQuery]_vars

\* The POST endpoints of the two servers over one table.
NextHttp ==
  \/ \E c \in 1..MaxCalls, data \in PasswordData : StartCreate(c, data)
  \/ \E c \in 1..MaxCalls : CreateFind(c)
  \/ \E c \in 1..MaxCalls : CreateBegin(c)
  \/ \E c \in 1..MaxCalls : CreateInsert(c)
  \/ \E c \in 1..MaxCalls, body \in SimpleBodies : SimplePost(c, body)
  \/ \E c \in 1..MaxCalls : Return(c)
  \/ Tick

SpecHttp == Init /\ [][NextHttp]_vars

\* Error responses under every NODE_ENV.
NextResponse ==
  \/ \E code \in ThrownCodes, message \in ThrownMessages,
        classified \in BOOLEAN :
       RespondError(Thrown(code, message), classified)
  \/ \E nodeEnv \in NodeEnvs : Restart(nodeEnv)

SpecResponse == Init /\ [][NextResponse]_vars

\* Free texts of requests and of sanitizeSqlInput.
NextSanitize ==
  \/ \E input \in SanTexts : Sanitize(input)
  \/ \E field \in {"service", "username", "search"}, input \in SanTexts :
       RouteText(field, input)
  \/ TextDone

SpecSanitize == Init /\ [][NextSanitize]_vars

\* The cache counters of the monitor.
NextMonitor ==
  \/ recordCacheHit
  \/ recordCacheMiss
  \/ getMetrics
  \/ resetMetrics

SpecMonitor == Init /\ [][NextMonitor]_vars

\* Overlapping executeOperation calls on one useLoadingState.
NextLoader ==
  \/ \E o \in Operations : OperationStarts(o)
  \/ \E o \in Operations, rejected \in BOOLEAN : OperationSettles(o, rejected)
  \/ \E o \in Operations : OperationReturns(o)

SpecLoader == Init /\ [][NextLoader]_vars

\* A list call beside create and delete calls.
NextListRace ==
  \/ \E limit \in 1..MaxLimit : ReadStarts(limit)
  \/ ReadPage
  \/ ReadCount
  \/ ReadReturns
  \/ ReadDone
  \/ \E c \in 1..MaxWriters, data \in RecordData : StartCreate(c, data)
  \/ \E c \in 1..MaxWriters : CreateFind(c)
  \/ \E c \in 1..MaxWriters : CreateBegin(c)
  \/ \E c \in 1..MaxWriters : CreateInsert(c)
  \/ \E c \in 1..MaxWriters : DeleteStep(c)
  \/ \E c \in 1..MaxWriters : Return(c)

SpecListRace == Init /\ [][NextListRace]_vars

SpecService == Init /\ [][NextService]_vars

SpecLimiter == Init /\ [][NextLimiter]_vars

SpecErrorHandler == Init /\ [][NextErrorHandler]_vars

NextDb ==
  \/ \E o \in Ops : StartInitialize(o)
  \/ \E o \in Ops : StartQuery(o)
  \/ \E o \in Ops : QueryConnect(o)
  \/ \E o \in Ops : QueryExec(o)
  \/ \E o \in Ops : StartTransaction(o)
  \/ \E o \in Ops : TxConnect(o)
  \/ \E o \in Ops : TxBegin(o)
  \/ \E o \in Ops : TxCallback(o)
  \/ \E o \in Ops : TxCommit(o)
  \/ \E o \in Ops : TxRollback(o)
  \/ \E o \in Ops : StartTestConnection(o)
  \/ \E o \in Ops : TestConnect(o)
  \/ \E o \in Ops : TestQuery(o)
  \/ \E o \in Ops : DbReturn(o)

SpecDb == Init /\ [][NextDb]_vars

NextRetry ==
  \/ \E n \in RetryCounts, d \in RetryDelays, toast \in BOOLEAN, logE \in BOOLEAN :
       CallHandle(n, d, toast, logE)
  \/ \E n \in RetryCounts, d \in RetryDelays, toast \in BOOLEAN, logE \in BOOLEAN :
       ExecuteOperation(n, d, toast, logE)
  \/ \E v \in Values : AttemptSucceeds(v)
  \/ \E e \in OperationErrors : AttemptFails(e)
  \/ TimerFires
  \/ HandleReturn
  \/ ExecuteOperationSettles
  \/ HookReturn

SpecRetry == Init /\ [][NextRetry]_vars

\* The operation's promise settles and a scheduled timer fires.
AttemptSettles ==
  \/ \E v \in Values : AttemptSucceeds(v)
  \/ \E e \in OperationErrors : AttemptFails(e)

SpecRetryFair == SpecRetry /\ WF_vars(AttemptSettles) /\ WF_vars(TimerFires)

(***************************************************************************)
(* Properties                                                              *)
(***************************************************************************)

\* The create calls issued for the pair (s, u).
CreatesOf(s, u) ==
  {c \in Calls : /\ call[c].op = "create"
                 /\ call[c].data.service = s
                 /\ call[c].data.username = u}

\* C1: when two or more create() calls for the same (service, username)
\* have all finished, whatever the interleaving of their steps, exactly one
\* of them succeeded and returned the created record and every other one
\* failed with Conflict (409).
C1_ExactlyOneCreateSucceeds ==
  \A s \in Services, u \in Usernames :
    LET cs == CreatesOf(s, u)
    IN (Cardinality(cs) >= 2 /\ \A c \in cs : call[c].pc = "done")
         => \E w \in cs :
              /\ call[w].outcome = "ok"
              /\ call[w].ret \in rows
              /\ \A l \in cs \ {w} : /\ call[l].outcome = "error"
                                     /\ call[l].statusCode = 409

\* C2: in every reachable state of the store no two live records have the
\* same (service, username) pair.
C2_UniquePair ==
  \A r1 \in rows, r2 \in rows :
    r1.id # r2.id => ~(r1.service = r2.service /\ r1.username = r2.username)

\* C3: every connection acquired by query, transaction and testConnection
\* is released exactly once on every exit path, and with no operation in
\* flight no connection is checked out.
C3_ConnectionsReleased ==
  /\ \A o \in Ops :
       dbop[o].pc = "done" /\ dbop[o].kind \in {"query", "transaction", "testConnection"}
         => dbop[o].released = dbop[o].acquired
  /\ (\A o \in Ops : dbop[o].pc \in {"idle", "done"}) => pool.checkedOut = 0

Failed(l, i) == l[i].ev \in {"BEGIN", "CALLBACK", "COMMIT"} /\ ~l[i].ok

\* C4: in a transaction COMMIT is issued only after BEGIN and the callback
\* completed without error; after a failed BEGIN, callback or COMMIT,
\* ROLLBACK is issued on the held connection before the error is classified,
\* before the connection is released and before the error reaches the caller.
C4_TransactionOrder ==
  \A o \in Ops :
    dbop[o].kind = "transaction" =>
      LET l == dbop[o].log
      IN /\ \A i \in 1..Len(l) :
              l[i].ev = "COMMIT" =>
                /\ \E j \in 1..(i - 1) : l[j] = Ev("BEGIN", TRUE)
                /\ \E j \in 1..(i - 1) : l[j] = Ev("CALLBACK", TRUE)
                /\ \A j \in 1..(i - 1) : l[j].ok
         /\ \A i \in 1..Len(l) :
              Failed(l, i) =>
                /\ \A m \in (i + 1)..Len(l) :
                     l[m].ev \in {"CLASSIFY", "RELEASE", "THROW"} =>
                       \E r \in (i + 1)..(m - 1) : l[r].ev = "ROLLBACK"
                /\ dbop[o].pc = "done" =>
                     /\ dbop[o].outcome = "error"
                     /\ \E m \in (i + 1)..Len(l) : l[m].ev = "THROW"
                     /\ \E m \in (i + 1)..Len(l) : l[m].ev = "RELEASE"

\* A transaction whose COMMIT failed has ended, rolled back.
C4_Witness ==
  \E o \in Ops :
    /\ dbop[o].kind = "transaction"
    /\ dbop[o].pc = "done"
    /\ \E i \in 1..Len(dbop[o].log) : dbop[o].log[i] = Ev("COMMIT", FALSE)
    /\ \E i \in 1..Len(dbop[o].log) : dbop[o].log[i] = Ev("ROLLBACK", TRUE)

\* C5: every error that leaves query or transaction is a classified
\* AppError with a code of the taxonomy, and no backend-native code reaches
\* the caller or the HTTP response body.
C5_NoNativeCodeEscapes ==
  \A o \in Ops :
    (dbop[o].kind \in {"query", "transaction"} /\ dbop[o].outcome = "error")
      => /\ dbop[o].thrown.isAppError
         /\ dbop[o].thrown.code \in TaxonomyCodes
         /\ dbop[o].thrown.code \notin NativeCodes
         /\ ResponseError(dbop[o].thrown).code \notin NativeCodes

NonRetryableKinds == {"Validation", "Conflict", "NotFound", "Permission"}
RetryableKinds == {"Network", "Database"}

\* C6: an attempt that fails with a non-retryable kind is the last one:
\* handleAsyncOperation neither waits nor invokes the operation again.
C6_NonRetryableNotRetried ==
  \A i \in 1..Len(h.history) :
    (~h.history[i].ok /\ h.history[i].kind \in NonRetryableKinds)
      => (i = Len(h.history) /\ h.pc # "waiting")

\* The invocation bound of C7: for every retryCount n >= 0 the operation is
\* invoked at most n + 1 times, and when it fails with a retryable kind on
\* every attempt the call ends after exactly n + 1 invocations.
C7_InvocationBound ==
  h.retryCount >= 0 =>
    /\ h.invocations <= h.retryCount + 1
    /\ h.invocations = Len(h.history)
    /\ h.pc = "waiting" => h.invocations <= h.retryCount
    /\ (/\ h.pc = "done"
        /\ \A i \in 1..Len(h.history) :
             ~h.history[i].ok /\ h.history[i].kind \in RetryableKinds)
         => h.invocations = h.retryCount + 1

\* Every call of handleAsyncOperation ends, whatever its attempts do.
C7_Terminates == (h.pc \in {"attempt", "waiting"}) ~> (h.pc = "done")

\* C7, whole: the invocation bound holds throughout and, as long as each
\* attempt settles and each timer fires, every call terminates.
C7_BoundedInvocations == []C7_InvocationBound /\ C7_Terminates

\* A call with a budget of two retries has ended after three failed
\* attempts of a retryable kind.
C7_Witness ==
  /\ h.pc = "done"
  /\ h.retryCount = 2
  /\ h.invocations = 3
  /\ \A i \in 1..Len(h.history) :
       ~h.history[i].ok /\ h.history[i].kind \in RetryableKinds

TwoNetworkFailuresThenSuccess ==
  /\ h.pc = "done"
  /\ h.retryCount >= 2
  /\ Len(h.history) = 3
  /\ ~h.history[1].ok /\ h.history[1].kind = "Network"
  /\ ~h.history[2].ok /\ h.history[2].kind = "Network"
  /\ h.history[3].ok

RetryLog ==
  <<[level |-> "error", attempt |-> 1], [level |-> "error", attempt |-> 2],
    [level |-> "info", attempt |-> 3]>>

\* C9 as stated: after two Network failures and a success the call resolves
\* with the operation's result and the log holds two failed-attempt entries
\* followed by one success entry at info level.
C9_RetryLogged ==
  TwoNetworkFailuresThenSuccess =>
    /\ h.outcome = "resolved"
    /\ h.value = h.history[3].value
    /\ h.log = RetryLog

\* C9, amended: the same, for a call that has logging enabled (logError,
\* true by default); a call with logError false resolves the same way and
\* logs nothing.
C9_RetryLoggedWhenLogging ==
  TwoNetworkFailuresThenSuccess =>
    /\ h.outcome = "resolved"
    /\ h.value = h.history[3].value
    /\ h.log = IF h.logError THEN RetryLog ELSE <<>>

\* A logging call has resolved on its third attempt.
C9_Witness == TwoNetworkFailuresThenSuccess /\ h.logError /\ Len(h.log) = 3

\* C10: when the operation fails on every allowed attempt, executeOperation
\* rejects with an AppError and leaves the error state set to that error's
\* user message.
C10_FailureRejects ==
  (hook.pc = "done" /\ hook.failedAll)
    => /\ hook.outcome = "rejected"
       /\ hook.thrown # None
       /\ hook.error = hook.thrown.userMessage

\* C11: of the delete calls issued for one id, at most one returns success;
\* every other one, whatever the interleaving, fails with NotFound (404).
\* Ids are never handed out twice, so two finished delete calls that both
\* succeeded on one id had one record between them.
C11_AtMostOneDeleteSucceeds ==
  \A c1, c2 \in Calls :
    (/\ c1 # c2
     /\ call[c1].op = "delete" /\ call[c2].op = "delete"
     /\ call[c1].pc = "done" /\ call[c2].pc = "done"
     /\ call[c1].id = call[c2].id)
    => ~(call[c1].outcome = "ok" /\ call[c2].outcome = "ok")

\* C12: an update whose UPDATE statement is applied when no record has its
\* id (a concurrent delete removed it after the existence check) fails with
\* NotFound (404) and with no other kind.
C12_UpdateOfAbsentIsNotFound ==
  [][\A c \in Calls :
       (/\ call[c].pc = "update_exec"
        /\ call'[c].pc = "done"
        /\ findById(rows, call[c].id) = None)
       => (call'[c].outcome = "error" /\ call'[c].statusCode = 404)]_vars

\* C15: no step changes the created_at of a record that stays in the table,
\* and a finishing update leaves the set of ids in the table as it was: a
\* record keeps the id and the createdAt it was created with.
C15_IdAndCreatedAtImmutable ==
  [][/\ \A r \in rows : \A r2 \in rows' :
          r2.id = r.id => r2.created_at = r.created_at
     /\ \A c \in Calls :
          (call[c].pc = "update_exec" /\ call'[c].pc = "done")
          => {r.id : r \in rows'} = {r.id : r \in rows}]_vars

\* A record updated at a later NOW() than the one it was created at, the
\* update having returned it.
C15_Witness ==
  \E c \in Calls : \E r \in rows :
    /\ call[c].op = "update" /\ call[c].pc = "done" /\ call[c].outcome = "ok"
    /\ call[c].ret = r
    /\ r.updated_at > r.created_at

\* C16: a successful update leaves the record with an updated_at strictly
\* greater than the one it had before.
C16_UpdatedAtStrictlyIncreases ==
  [][\A c \in Calls :
       (/\ call[c].pc = "update_exec"
        /\ call'[c].pc = "done"
        /\ call'[c].outcome = "ok")
       => call'[c].ret.updated_at > findById(rows, call[c].id).updated_at]_vars

\* The fields of a body that are outside the bounds of the data model:
\* service 1..100, username 1..100, secret 1..500 characters.
OutOfBounds(body) ==
  {f \in {"service", "username", "password"} :
     LET max == CASE f = "service" -> ServiceMax
                  [] f = "username" -> UsernameMax
                  [] f = "password" -> PasswordMax
     IN \/ body[f] = Undefined
        \/ StrLen(body[f]) < 1
        \/ StrLen(body[f]) > max}

\* The body the controller validated for request c: it is rejected with
\* 400 before the service is called, or it is in the service or past it.
ValidationFailed(c) ==
  call[c].pc = "done" /\ call[c].statusCode = 400 /\ call[c].data = None

\* C13: a record just created and read back by findById equals the request
\* body on every field the body supplied (service, username, secret, url)
\* and has id, created_at and updated_at populated.
C13_CreateThenGetById ==
  \A c \in Calls :
    (/\ call[c].op = "create" /\ call[c].body # None
     /\ call[c].pc = "done" /\ call[c].outcome = "ok"
     /\ findById(rows, call[c].ret.id) = call[c].ret)
    => LET r == findById(rows, call[c].ret.id)
           body == call[c].body
       IN /\ r.service = body.service
          /\ r.username = body.username
          /\ r.password = body.password
          /\ body.url # Undefined => r.url = body.url
          /\ r.id \in 1..MaxRows
          /\ r.created_at \in 0..MaxClock
          /\ r.updated_at \in 0..MaxClock

\* C14: an update whose body supplies only some of the fields, each of
\* them within bounds, is not rejected: on an existing record it succeeds
\* and the fields it does not supply keep their values.
C14_PartialUpdate ==
  \A c \in Calls :
    (/\ call[c].op = "update" /\ call[c].body # None
     /\ call[c].pc = "done"
     /\ \E f \in {"service", "username", "password"} :
          call[c].body[f] = Undefined
     /\ \A f \in OutOfBounds(call[c].body) : call[c].body[f] = Undefined
     /\ call[c].body.password # Undefined)
    => ~ValidationFailed(c)

\* C17: validatePasswordData fails with 400 exactly for the bodies with a
\* field out of bounds, and the error then names every field that is out
\* of bounds.
C17_ValidationNamesEveryField ==
  \A c \in Calls :
    (call[c].body # None)
    => /\ ValidationFailed(c) <=> OutOfBounds(call[c].body) # {}
       /\ ValidationFailed(c) => call[c].named = OutOfBounds(call[c].body)

\* A service of 101 characters rejected together with a second field, both
\* named.
C17_Witness ==
  \E c \in Calls :
    /\ call[c].body # None
    /\ call[c].body.service # Undefined
    /\ StrLen(call[c].body.service) = ServiceMax + 1
    /\ call[c].pc = "done" /\ call[c].statusCode = 400
    /\ {"service", "password"} \subseteq call[c].named

\* C18: every stored record has a service and a username of 1 to 100
\* characters.
C18_StoredLengths ==
  \A r \in rows :
    /\ StrLen(r.service) \in 1..ServiceMax
    /\ StrLen(r.username) \in 1..UsernameMax

\* C19: a request whose input fails validation (here: an id that is
\* malformed) is never in the service, where statements are executed, and
\* ends with 400.
C19_RejectedBeforeBackend ==
  \A c \in Calls :
    (call[c].op \in {"update", "delete"} /\ call[c].id = MalformedId)
    => /\ call[c].pc \in {"idle", "done"}
       /\ call[c].pc = "done" => call[c].statusCode = 400

\* C20: when the client has fetched the pages 1..ceil(n/s) of a table of n
\* records, every record is on exactly one page and every page before the
\* last holds s records.
C20_PagesPartition ==
  LET n == Cardinality(rows)
      s == ls.limit
      pages == ls.pages
      OnPage(r, k) == \E i \in DOMAIN pages[k].data : pages[k].data[i] = r
  IN (ls.pc = "paging" /\ n > 0 /\ Len(pages) = Ceil(n, s))
     => /\ \A r \in rows :
             Cardinality({k \in DOMAIN pages : OnPage(r, k)}) = 1
        /\ \A k \in 1..(Len(pages) - 1) : Len(pages[k].data) = s

\* term occurs in text as a substring, letters compared without regard to
\* case and every other character literally.
Contains(text, term) ==
  \E i \in 0..(Len(text) - Len(term)) :
    \A j \in 1..Len(term) : Lower(text[i + j]) = Lower(term[j])

\* C21: every answer to a list request with a search term reports as total
\* the number of records whose service or username contains the term, and
\* returns only such records.
C21_SearchIsSubstringMatch ==
  LET hits == {r \in rows : \/ Contains(r.service, ls.search)
                            \/ Contains(r.username, ls.search)}
  IN \A k \in DOMAIN ls.pages :
       /\ ls.pages[k].pagination.total = Cardinality(hits)
       /\ \A i \in DOMAIN ls.pages[k].data : ls.pages[k].data[i] \in hits

(***************************************************************************)
(* ServiceFactory properties                                               *)
(***************************************************************************)
Returned(fns) == {i \in 1..Len(sf.log) : sf.log[i].fn \in fns}

\* C23 as stated: the default service is the remote one exactly when the
\* force flag is set or a valid remote connection string is configured,
\* and the local one otherwise.
C23_DetectionPrecedence ==
  \A i \in Returned({"getDefault"}) :
    sf.log[i].ret.kind =
      IF sf.env.USE_NEONDB THEN "neondb"
      ELSE IF sf.env.DATABASE_URL = ConnectionUrl THEN "neondb"
      ELSE "indexeddb"

\* C23 amended: the default service is the remote one exactly when the
\* force flag is set or a non-empty remote connection string is configured
\* (whether or not it is a valid one), and the local one otherwise.
C23_DetectionPrecedenceNonEmpty ==
  \A i \in Returned({"getDefault"}) :
    sf.log[i].ret.kind =
      IF sf.env.USE_NEONDB THEN "neondb"
      ELSE IF sf.env.DATABASE_URL # NoUrl THEN "neondb"
      ELSE "indexeddb"

C23_Witness ==
  /\ ~sf.env.USE_NEONDB
  /\ sf.env.DATABASE_URL = MalformedUrl
  /\ \E i \in Returned({"getDefault"}) : sf.log[i].ret.kind = "neondb"

\* C24: between two clearCache calls every getDefault call returns the same
\* instance, and no getDefault call after the first one constructs one.
C24_DefaultIsCached ==
  \A i, j \in Returned({"getDefault"}) :
    (i < j /\ sf.log[i].epoch = sf.log[j].epoch)
      => /\ sf.log[j].ret = sf.log[i].ret
         /\ ~sf.log[j].fresh

C24_Witness ==
  \E i, j \in Returned({"getDefault"}) :
    /\ i < j
    /\ sf.log[i].epoch = sf.log[j].epoch
    /\ \E k \in Returned({"getNeon", "getIndexedDB"}) : i < k /\ k < j

\* C25: a forced getter returns a service of the requested kind and
\* constructs it anew on every call, never returning an instance an
\* earlier call returned.
C25_ForcedIsFresh ==
  \A j \in Returned({"getNeon", "getIndexedDB"}) :
    /\ sf.log[j].ret.kind =
         (IF sf.log[j].fn = "getNeon" THEN "neondb" ELSE "indexeddb")
    /\ sf.log[j].fresh
    /\ \A i \in 1..(j - 1) : sf.log[i].ret # sf.log[j].ret

\* C26: an instance returned before a clearCache call is never returned by
\* a call after it.
C26_ClearedInstancesNeverReturn ==
  \A i, j \in Returned({"getDefault", "getNeon", "getIndexedDB"}) :
    sf.log[i].epoch < sf.log[j].epoch => sf.log[i].ret # sf.log[j].ret

C26_Witness ==
  \E i, j \in Returned({"getDefault", "getNeon", "getIndexedDB"}) :
    /\ sf.log[i].epoch < sf.log[j].epoch
    /\ sf.log[i].fn = sf.log[j].fn
    /\ sf.log[i].ret.kind = "indexeddb"
    /\ sf.log[j].ret.kind = "indexeddb"

(***************************************************************************)
(* Pagination parameters                                                   *)
(***************************************************************************)
Clamp(n, lo, hi) == IF n < lo THEN lo ELSE IF n > hi THEN hi ELSE n

\* C22 as stated: a list request reaches the repository with page >= 1 and
\* 1 <= limit <= 100, with the defaults where the request omits them, and a
\* numeric value out of range is clamped into the range.
C22_PaginationClamped ==
  lq.pc = "respond" =>
    /\ lq.reached => /\ lq.page >= PageMin
                     /\ lq.limit >= LimitMin /\ lq.limit <= LimitMax
                     /\ lq.pageOmitted => lq.page = DefaultPage
                     /\ lq.limitOmitted => lq.limit = DefaultLimit
    /\ (~lq.askedPage.nan /\ ~lq.askedLimit.nan) =>
         /\ lq.reached
         /\ lq.page = (IF lq.askedPage.n < PageMin THEN PageMin
                        ELSE lq.askedPage.n)
         /\ lq.limit = Clamp(lq.askedLimit.n, LimitMin, LimitMax)

\* C22 amended: a list request that reaches the repository does so with
\* 1 <= page <= 1000 and 1 <= limit <= 100, with the defaults where the
\* request omits them; a limit above 100 is clamped to 100; a page below 1
\* or above 1000, a limit below 1 and a value that is no number are
\* answered 400 and do not reach the repository.
C22_PaginationBounds ==
  lq.pc = "respond" =>
    /\ lq.reached => /\ lq.page >= PageMin /\ lq.page <= PageMax
                     /\ lq.limit >= LimitMin /\ lq.limit <= LimitMax
                     /\ lq.offset = (lq.page - 1) * lq.limit
                     /\ lq.pageOmitted => lq.page = DefaultPage
                     /\ lq.limitOmitted => lq.limit = DefaultLimit
                     /\ lq.page = lq.askedPage.n
                     /\ lq.limit = Clamp(lq.askedLimit.n, LimitMin, LimitMax)
    /\ lq.reached <=>
         /\ ~lq.askedPage.nan /\ ~lq.askedLimit.nan
         /\ lq.askedPage.n >= PageMin /\ lq.askedPage.n <= PageMax
         /\ lq.askedLimit.n >= LimitMin
    /\ ~lq.reached => lq.statusCode = 400

\* A limit above 100 has reached the repository as 100 on a page after
\* the first.
C22_Witness ==
  /\ lq.pc = "respond"
  /\ lq.reached
  /\ lq.askedLimit.n > LimitMax
  /\ lq.limit = LimitMax
  /\ lq.page > PageMin

(***************************************************************************)
(* Connection acquisition                                                  *)
(***************************************************************************)
NetworkCodes == {"CONNECTION_REFUSED", "CONNECTION_TIMEOUT"}

TimedOut(o) ==
  \E i \in 1..Len(dbop[o].log) : dbop[o].log[i] = Ev("TIMEOUT", FALSE)

\* C27: an operation whose connection acquisition was not served within the
\* wait has failed, and the error thrown to its caller is classified as a
\* network error.
C27_AcquireTimeoutIsNetwork ==
  \A o \in Ops :
    TimedOut(o) =>
      /\ dbop[o].pc = "done"
      /\ dbop[o].outcome = "error"
      /\ dbop[o].thrown.isAppError
      /\ dbop[o].thrown.code \in NetworkCodes

(***************************************************************************)
(* Backoff ceiling                                                         *)
(***************************************************************************)
\* C28: no wait between two attempts exceeds the maximum delay of the
\* configuration.  ErrorHandlerConfig holds one delay, retryDelay, and no
\* other: it is the only ceiling a caller can have configured.
C28_BackoffCeiling ==
  /\ \A k \in 1..Len(h.waits) : h.waits[k] <= h.retryDelay
  /\ h.pc = "waiting" => h.delay <= h.retryDelay

(***************************************************************************)
(* Status codes                                                            *)
(***************************************************************************)
PairStored(data) ==
  \E r \in rows : r.service = data.service /\ r.username = data.username

\* C29: a POST that succeeded is answered 201, a failed one 400, 404, 409
\* or 500, and a POST of a complete body that failed while its
\* (service, username) pair is stored is answered 409.
C29_StatusMapping ==
  \A c \in 1..MaxCalls :
    (call[c].pc = "done" /\ call[c].op \in {"create", "simple_post"}) =>
      /\ call[c].outcome = "ok" => call[c].statusCode = 201
      /\ call[c].outcome = "error" =>
           /\ call[c].statusCode \in {400, 404, 409, 500}
           /\ (call[c].data.password # "" /\ PairStored(call[c].data))
                => call[c].statusCode = 409

(***************************************************************************)
(* Error responses in production                                           *)
(***************************************************************************)
\* C30: in production two failures of the same classified kind get the
\* same response, and outside development no response carries what was
\* thrown: its message, its code or its stack.
C30_ProductionResponsesByKind ==
  /\ resp.nodeEnv = "production" =>
       \A i, j \in 1..Len(resp.sent) :
         resp.sent[i].kind = resp.sent[j].kind
           => resp.sent[i].body = resp.sent[j].body
  /\ resp.nodeEnv # "development" =>
       \A i \in 1..Len(resp.sent) :
         /\ resp.sent[i].body.details = Undefined
         /\ resp.sent[i].body.message \notin ThrownMessages
         /\ resp.sent[i].body.code \notin (ThrownCodes \ {NULL})

(***************************************************************************)
(* Sanitized free text                                                     *)
(***************************************************************************)
HasChar(t, class) == \E i \in 1..Len(t) : t[i] \in class
HasPair(t, a, b) == \E i \in 1..(Len(t) - 1) : t[i] = a /\ t[i + 1] = b

\* C31: a service, username or search term that reaches the repository
\* holds no quote character, no comment delimiter and no angle bracket of
\* a markup tag.
C31_ReachesRepositorySanitized ==
  (san.op = "route" /\ san.reached) =>
    /\ ~HasChar(san.output, {"'", "\"", "<", ">"})
    /\ ~HasPair(san.output, "-", "-")
    /\ ~HasPair(san.output, "/", "*")

\* C39: what sanitizeSqlInput returns holds none of ' " \ ; and neither --
\* nor /*, and sanitizeSqlInput applied to it returns it.
C39_SanitizeSqlInputIdempotent ==
  san.op = "sanitize" =>
    /\ ~HasChar(san.output, {"'", "\"", "\\", ";"})
    /\ ~HasPair(san.output, "-", "-")
    /\ ~HasPair(san.output, "/", "*")
    /\ san.again = san.output

(***************************************************************************)
(* Cache counters                                                          *)
(***************************************************************************)
\* C32: the counters hold, and getMetrics returned, the numbers of
\* recordCacheHit and recordCacheMiss calls made since the last
\* resetMetrics.
C32_CountersMatchCalls ==
  /\ mon.metrics.cacheHits = mon.hitCalls
  /\ mon.metrics.cacheMisses = mon.missCalls
  /\ mon.got # None => /\ mon.got.cacheHits = mon.got.hitCalls
                       /\ mon.got.cacheMisses = mon.got.missCalls

\* After a reset, two hits and a miss were recorded and read.
C32_Witness ==
  /\ mon.wasReset
  /\ mon.got # None
  /\ mon.got.hitCalls = 2 /\ mon.got.cacheHits = 2
  /\ mon.got.missCalls = 1 /\ mon.got.cacheMisses = 1

(***************************************************************************)
(* loading with several operations in flight                               *)
(***************************************************************************)
\* C33: loading is true as long as an executeOperation call has not
\* finished.
C33_LoadingWhileInFlight ==
  (\E o \in Operations : loader.pc[o] = "awaiting") => loader.loading

(***************************************************************************)
(* The total of a list                                                     *)
(***************************************************************************)
\* C34: the total a list call returns is the number of records that
\* matched in the table its page was read from.
C34_TotalFromSameState ==
  lr.pc = "done" => lr.total = countWithSearch(lr.seen, NoSearch)

(***************************************************************************)
(* initialize                                                              *)
(***************************************************************************)
\* C35: when an initialize call has returned without throwing, the pool
\* has passed its connection test and isConnected is true.
C35_InitializeReturnsConnected ==
  \A o \in Ops :
    (dbop[o].kind = "initialize" /\ dbop[o].pc = "done"
       /\ dbop[o].outcome = "ok")
      => isConnected

(***************************************************************************)
(* One connection per logical operation                                    *)
(***************************************************************************)
\* C36: while a getPasswords call is running, at most one pooled connection
\* is checked out on its behalf.
C36_OneConnectionPerOperation ==
  svc.pc = "running"
    => Cardinality({o \in svc.stmts : dbop[o].client}) <= 1

(***************************************************************************)
(* rateLimiter                                                             *)
(***************************************************************************)
\* C37: for every identifier the number of its requests forwarded during
\* the preceding windowMs is at most maxRequests; a request is answered 429
\* and not forwarded exactly when that number of its own identifier was
\* already maxRequests, whatever the other identifiers sent.
C37_WindowHoldsPerIdentifier ==
  /\ \A identifier \in Identifiers :
       \A t \in 0..rl.now :
         ForwardedDuring(rl.forwarded, identifier, t) <= MaxRequests
  /\ rl.answer.status # 0
       => /\ (rl.answer.status = 429)
               <=> (rl.answer.forwardedBefore = MaxRequests)
          /\ (rl.answer.status = 200)
               <=> (rl.answer.forwardedBefore < MaxRequests)

\* A request was answered 429 while the other identifier was still being
\* forwarded.
C37_Witness ==
  /\ rl.answer.status = 429
  /\ \E other \in Identifiers \ {rl.answer.identifier} :
       /\ rl.forwarded[other] # <<>>
       /\ ForwardedDuring(rl.forwarded, other, rl.now) < MaxRequests

(***************************************************************************)
(* handleAsyncError                                                        *)
(***************************************************************************)
\* C38: handleAsyncError never rejects; when the operation failed on every
\* attempt, handleError was invoked with the failure, logging it and
\* showing the toast when those are enabled, and the call resolved to null.
C38_FailureIsHandled ==
  eh.pc = "done"
    => /\ eh.outcome = "resolved"
       /\ eh.failedAll
            => /\ Len(eh.handled) = 1
               /\ eh.logged = (IF eh.logError THEN 1 ELSE 0)
               /\ eh.toasts = (IF eh.showToast THEN 1 ELSE 0)
               /\ eh.value = NULL

====
